---- MODULE Spec2Model ----
(***************************************************************************)
(* ProxyCall voice agent: the orchestrator state machine                   *)
(* (src/src/orchestrator.py), the recognizer bridge it stops and restarts  *)
(* around synthesis (src/src/asr/voxtral.py) and the external              *)
(* collaborators of a detect/respond sequence (intent classifier, gate,    *)
(* responder, synthesis, playback).                                        *)
(*                                                                         *)
(* Everything runs on one asyncio event loop, so the code between two      *)
(* awaits is one atomic step.  Every action below is one such step: a      *)
(* key handler, one transcript callback, one main-loop iteration, or the   *)
(* continuation of a _check_and_respond task from one suspension point to  *)
(* the next.  The results of external calls are inputs drawn with \E.      *)
(***************************************************************************)
EXTENDS Integers, FiniteSets, Sequences, TLC

\* ------------------------------------------------------------------ bounds
\* Number of _check_and_respond tasks ever created in one run.
MaxSeqs == 2
\* The monotonic clock runs from 1 to MaxTime.
MaxTime == 3
\* config["agent"]["silence_timeout_ms"] / 1000, in clock ticks.
SilenceInterval == 1
\* Audio blocks the capture device delivers in one run.
MaxChunks == 6
\* Size of the capture delivery queue (asyncio.Queue(maxsize=500), scaled).
QueueMaxsize == 2
\* Frames the boundary detector classifies in one session.
MaxVadFrames == 5
\* The detector's clock (time.monotonic()) runs from 1 to MaxVadTime.
MaxVadTime == 3
\* Characters of recognized text added to the transcript buffer in one run.
MaxTextLen == 4
\* Samples in the block given to _resample.
MaxSamples == 6
\* Bytes of audio fed to the recognizer bridge in one run.
MaxBytes == 4
\* VoxtralASR._write_threshold (32000 bytes, one second of audio), scaled.
WriteThreshold == 3
\* Fragments read from the recognizer's output in one run.
MaxFragments == 3

\* --------------------------------------------------------------- constants
\* ConfidenceGate.auto_threshold, in tenths.
AutoThreshold == 7
\* Confidence of the IntentResult that classify() returns when it fails.
FailedConfidence == 5
\* Confidences the classifier may report, in tenths: below, at and above
\* the threshold.
Confidences == {3, 7, 9}

Tasks == 1..MaxSeqs
\* Recognizer processes: 1 is the one Orchestrator.start() launched, task t
\* launches process t + 1 when it restarts the recognizer.
InitialPid == 1
Pids == 1..(MaxSeqs + 1)
NoProcess == 0
SpawnPid(t) == t + 1

IDLE == "IDLE"
LISTENING == "LISTENING"
DETECTING == "DETECTING"
THINKING == "THINKING"
SPEAKING == "SPEAKING"
MUTED == "MUTED"
State == {IDLE, LISTENING, DETECTING, THINKING, SPEAKING, MUTED}

RESPOND == "respond"
CONFIRM == "confirm"
SILENT == "silent"

VARIABLES
    \* Orchestrator fields
    state,                      \* self.state
    muted,                      \* self._muted
    pending_check,              \* self._pending_check
    last_speech_time,           \* self._last_speech_time
    last_checked_speech_time,   \* self._last_checked_speech_time
    \* environment
    now,                        \* time.monotonic()
    textBlank,                  \* transcript.get_recent_text(60) is blank
    playing,                    \* the task whose response the output device is playing (0: silent)
    \* VoxtralASR fields and the processes it launched
    asr_running,                \* self._running
    process,                    \* self._process (NoProcess: None)
    model_ready,                \* self._model_ready (asyncio.Event)
    warming_up,                 \* self._warming_up
    alive,                      \* recognizer processes that have not exited
    loaded,                     \* processes whose "Model loaded" line was read
    stdoutReaders,              \* processes a _read_stdout task is reading from
    write_buffer,               \* self._write_buffer, the bytes in it
    \* _check_and_respond tasks
    pc,                         \* suspension point each task is at
    force,                      \* the task's force argument
    ret,                        \* the inner except ran: its return is pending
    waitPid,                    \* the process the task's stop() awaits
    nCreated,                   \* tasks created so far
    \* history of the run (not read by any action's guard)
    mutedSince,                 \* task: the pipeline is muted since the task was created
    failed,                     \* task: an external call of its cycle failed
    raised,                     \* task: a step of its sequence raised
    arrivedSinceCheck,          \* a transcript arrived since the main loop last started a check
    lastArrival,                \* clock value at the latest transcript arrival (0: none yet)
    muteToggled,                \* mute was entered by toggle_mute and not left since
    skipped                     \* task: skip_response was called, unmuted, during its sequence

orchVars == <<state, muted, pending_check, last_speech_time, last_checked_speech_time>>
envVars == <<now, textBlank, playing>>
asrVars == <<asr_running, process, model_ready, warming_up, alive, loaded, stdoutReaders,
             write_buffer>>
taskVars == <<pc, force, ret, waitPid, nCreated>>
histVars == <<mutedSince, failed, raised, arrivedSinceCheck, lastArrival, muteToggled,
              skipped>>
coreVars == <<orchVars, envVars, asrVars, taskVars, histVars>>

\* ---------------------------------------- audio capture (audio/capture.py)
RING_BUFFER_SECONDS == 120
\* Target rates and block sizes an AudioCapture is constructed with (scaled:
\* one rate unit per second keeps the ring buffer a few blocks long).
SampleRates == {1, 2}
BlockSizes == {50, 80, 100, 150}

VARIABLES
    sample_rate,                \* AudioCapture.sample_rate
    block_size,                 \* AudioCapture.block_size
    ring_buffer,                \* self._ring_buffer (a deque with maxlen)
    scheduled,                  \* _queue_put calls handed to call_soon_threadsafe, not yet run
    cap_queue,                  \* self._queue (an asyncio.Queue)
    nProduced,                  \* blocks the audio thread has delivered; block k is chunk k
    lastReceived                \* the chunk stream() yielded last (0: none yet)

captureVars == <<sample_rate, block_size, ring_buffer, scheduled, cap_queue,
                 nProduced, lastReceived>>

\* AudioCapture.__init__, line 63: the ring buffer's maxlen.
MaxBlocks(rate, block) == (RING_BUFFER_SECONDS * rate) \div block

\* An AudioCapture constructed with (rate, block) and started: nothing
\* captured yet.
CaptureInit(rate, block) ==
    /\ sample_rate = rate
    /\ block_size = block
    /\ ring_buffer = <<>>
    /\ scheduled = <<>>
    /\ cap_queue = <<>>
    /\ nProduced = 0
    /\ lastReceived = 0

\* ------------------------------- utterance boundary detector (asr/vad.py)
VAD_CHUNK_SIZE == 512
\* VoiceActivityDetector.speech_threshold and the probabilities the
\* classifier reports, in tenths: below, at and above the threshold.
SpeechThreshold == 5
Probs == {4, 5, 6}
\* silence_timeout values a detector is constructed with, in clock ticks.
SilenceTimeouts == {0, 1, 2}
\* Lengths, in samples, of the audio given to one process() call.
AudioLens == {256, 512, 1024}
\* None, for _silence_start and _speech_start (the clock is never 0).
None == 0

VARIABLES
    silence_timeout,            \* VoiceActivityDetector.silence_timeout
    is_speaking,                \* self._is_speaking
    silence_start,              \* self._silence_start
    speech_start,               \* self._speech_start
    vad_buffer,                 \* len(self._buffer)
    vad_clock,                  \* the latest time.monotonic() reading
    vad_events,                 \* events returned by process() since reset(), in order
    vad_frames                  \* frames classified since reset(): probability and clock reading

vadVars == <<silence_timeout, is_speaking, silence_start, speech_start,
             vad_buffer, vad_clock, vad_events, vad_frames>>

\* A loaded and reset VoiceActivityDetector(silence_timeout = timeout).
VadInit(timeout) ==
    /\ silence_timeout = timeout
    /\ is_speaking = FALSE
    /\ silence_start = None
    /\ speech_start = None
    /\ vad_buffer = 0
    /\ vad_clock = 1
    /\ vad_events = <<>>
    /\ vad_frames = <<>>

\* ------------------------------------------ confidence gate (brain/gate.py)
\* auto_threshold values a ConfidenceGate is constructed with, in tenths.
AutoThresholds == {5, 7, 8}
\* IntentResult values handed to the gate (confidence in tenths).
IntentResults ==
    [needs_response : BOOLEAN, confidence : 0..10,
     question_summary : {"", "status of the release"},
     urgency : {"immediate", "can_wait", "fyi_only"}]
\* The fields before the first decide() call.
NoIntent ==
    [needs_response |-> FALSE, confidence |-> 0, question_summary |-> "",
     urgency |-> ""]
NoDecision == [action |-> "none", reason |-> "", intent |-> NoIntent]

VARIABLES
    auto_threshold,             \* ConfidenceGate.auto_threshold
    gate_intent,                \* the argument of the latest decide() call
    gate_decision               \* the GateDecision it returned

gateVars == <<auto_threshold, gate_intent, gate_decision>>

\* A ConfidenceGate(auto_threshold = threshold) before its first call.
GateInit(threshold) ==
    /\ auto_threshold = threshold
    /\ gate_intent = NoIntent
    /\ gate_decision = NoDecision

\* ------------------------------- transcript buffer (transcript/buffer.py)
\* Text is a sequence of characters: a letter, the sentence terminals and
\* the whitespace the recognizer emits.
Terminals == {".", "!", "?"}
Whitespace == {" ", "\n"}
Chars == {"a", ".", "?", " ", "\n"}
\* Fragments given to add_text: one or two characters.
Fragments == {<<c>> : c \in Chars} \cup {<<c, d>> : c \in Chars, d \in Chars}

VARIABLES
    segments,                   \* TranscriptBuffer._segments (their texts)
    current_text,               \* self._current_text
    textLen                     \* characters given to add_text so far

bufferVars == <<segments, current_text, textLen>>

\* A TranscriptBuffer after start_session().
BufferInit ==
    /\ segments = <<>>
    /\ current_text = <<>>
    /\ textLen = 0

\* ------------------------------------------ resampler (audio/capture.py)
\* Native and target rates (scaled), every pair of them.
Rates == 1..4

VARIABLES
    rs_audio,                   \* the audio argument of the latest _resample call
    rs_from,                    \* its from_rate
    rs_to,                      \* its to_rate
    rs_out                      \* the array it returned

resampleVars == <<rs_audio, rs_from, rs_to, rs_out>>

\* Before the first call.
ResampleInit ==
    /\ rs_audio = <<>>
    /\ rs_from = 1
    /\ rs_to = 1
    /\ rs_out = <<>>

\* ------------- text-generation calls (brain/intent.py, brain/responder.py)
MAX_RETRIES == 3
\* Confidence of the IntentResult returned when the reply holds no JSON.
UnparsedConfidence == 6
\* Responder.generate's fallback sentence.
Fallback == "Let me get back to you on that."
\* What one client.chat() call does: it returns a reply (usable, without
\* JSON, with JSON that does not parse, blank after cleaning) or raises.
TransportFailures == {"ConnectionError", "OSError"}
OtherFailures == {"ResponseError"}
Failures == TransportFailures \cup OtherFailures
Replies == {"usable", "no_json", "bad_json", "blank"}
NoResult == [kind |-> "none", needs_response |-> FALSE, confidence |-> 0, text |-> ""]

VARIABLES
    llm_caller,                 \* "classify" or "generate": the method running ("none": neither)
    llm_attempts,               \* what each client.chat() call of it did, in order
    llm_at,                     \* where it is: "chat", "sleep", "done" (returned), "raised"
    llm_result                  \* what it returned

llmVars == <<llm_caller, llm_attempts, llm_at, llm_result>>

\* No call is running.
LlmInit ==
    /\ llm_caller = "none"
    /\ llm_attempts = <<>>
    /\ llm_at = "done"
    /\ llm_result = NoResult

\* ------------------------------ recognizer input (asr/voxtral.py, feeding)
\* Sizes in bytes of the blocks given to feed_audio.
ChunkSizes == {1, 2}

VARIABLES
    written,                    \* process: the bytes its input pipe received, in order
    pausedAt,                   \* process: nFed when SIGSTOP stopped it (NotPaused: it runs)
    nFed,                       \* bytes given to feed_audio so far; byte k is the number k
    fedTo                       \* process: the bytes fed while the bridge ran it, ready and alive

feedVars == <<written, pausedAt, nFed, fedTo>>

NotPaused == -1

FeedInit ==
    /\ written = [p \in Pids |-> <<>>]
    /\ pausedAt = [p \in Pids |-> NotPaused]
    /\ nFed = 0
    /\ fedTo = [p \in Pids |-> <<>>]

\* --------------------------- recognizer output (VoxtralASR._read_stdout)
Listeners == {"transcript", "ui"}

VARIABLES
    on_transcript,              \* self._on_transcript, the registered callbacks
    fragmentsRead,              \* the decoded fragments _read_stdout has read, in order
    calls                       \* <<fragment number, callback, raised>> of every callback call

readerVars == <<on_transcript, fragmentsRead, calls>>

ReaderInit ==
    /\ on_transcript = <<>>
    /\ fragmentsRead = <<>>
    /\ calls = <<>>

\* ------------------------------- read-only queries (get_recent_audio, ...)
\* Windows in seconds a caller asks get_recent_audio for (a block of
\* BlockSizes at a rate of SampleRates lasts 25 to 150 seconds).
AudioWindows == {0, 20, 60, 100, 120, 160}
NoCall == -1

VARIABLES
    seconds,                    \* the argument of the last get_recent_audio call (NoCall: none)
    recent_audio                \* what that call returned: the chunks it concatenated

audioQueryVars == <<seconds, recent_audio>>

\* The session clock of the transcript buffer (time.monotonic() minus
\* _start_time) runs from 0 to MaxElapsed.
MaxElapsed == 2
\* Windows in seconds a caller asks get_recent_text for.
TextWindows == {0, 1, 3}
\* Fragments given to add_text between the queries: a letter, a terminal,
\* a space.
QueryFragments == {<<"a">>, <<".">>, <<" ">>}

VARIABLES
    elapsed,                    \* time.monotonic() - self._start_time
    stamps,                     \* TranscriptSegment.timestamp of each segment, in order
    window,                     \* the argument of the last get_recent_text call (NoCall: none)
    recent_text,                \* what that call returned
    all_text                    \* what the last get_all_text call returned

textQueryVars == <<elapsed, stamps, window, recent_text, all_text>>

queryVars == <<audioQueryVars, textQueryVars>>

QueryInit ==
    /\ seconds = NoCall
    /\ recent_audio = <<>>
    /\ elapsed = 0
    /\ stamps = <<>>
    /\ window = NoCall
    /\ recent_text = <<>>
    /\ all_text = <<>>

\* ------------------------------------------ shutdown (Orchestrator.stop)
\* AudioCapture.stop() calls in one run.
MaxStops == 2

VARIABLES
    orch_running,               \* Orchestrator._running
    stop_pc,                    \* where the Orchestrator.stop() call is ("none": not called)
    stop_wait,                  \* the process its asr.stop() awaits
    interrupted,                \* history: the sequences queued or under way when stop() was called
    cap_running,                \* AudioCapture._running
    cap_stream,                 \* AudioCapture._stream is set (the device is open)
    consumer,                   \* where the consumer of AudioCapture.stream() is
    nStops                      \* AudioCapture.stop() calls made so far

orchStopVars == <<orch_running, stop_pc, stop_wait, interrupted>>
streamVars == <<cap_running, cap_stream, consumer, nStops>>
shutVars == <<orchStopVars, streamVars>>

\* ------------------------------ state-change listeners (_set_state)
StateListeners == {"ui", "log", "hook"}

VARIABLES
    on_state_change,            \* self._on_state_change, the registered callbacks
    state_calls                 \* <<callback, state given, raised>> of the calls the last operation made

notifyVars == <<on_state_change, state_calls>>

NotifyInit ==
    /\ on_state_change = <<>>
    /\ state_calls = <<>>

ShutInit ==
    /\ orch_running = TRUE
    /\ stop_pc = "none"
    /\ stop_wait = NoProcess
    /\ interrupted = {}
    /\ cap_running = TRUE
    /\ cap_stream = TRUE
    /\ consumer = "idle"
    /\ nStops = 0

componentVars == <<captureVars, vadVars, gateVars, bufferVars, resampleVars, llmVars,
                   feedVars, readerVars, queryVars, shutVars, notifyVars>>
vars == <<coreVars, componentVars>>
\* Everything but one component's variables.
notCapture == <<coreVars, vadVars, gateVars, bufferVars, resampleVars, llmVars,
                feedVars, readerVars, queryVars, shutVars, notifyVars>>
notVad == <<coreVars, captureVars, gateVars, bufferVars, resampleVars, llmVars,
                feedVars, readerVars, queryVars, shutVars, notifyVars>>
notGate == <<coreVars, captureVars, vadVars, bufferVars, resampleVars, llmVars,
                feedVars, readerVars, queryVars, shutVars, notifyVars>>
notBuffer == <<coreVars, captureVars, vadVars, gateVars, resampleVars, llmVars,
                feedVars, readerVars, queryVars, shutVars, notifyVars>>
notResample == <<coreVars, captureVars, vadVars, gateVars, bufferVars, llmVars,
                feedVars, readerVars, queryVars, shutVars, notifyVars>>
notLlm == <<coreVars, captureVars, vadVars, gateVars, bufferVars, resampleVars,
                feedVars, readerVars, queryVars, shutVars, notifyVars>>

notQuery == <<coreVars, captureVars, vadVars, gateVars, bufferVars, resampleVars, llmVars,
              feedVars, readerVars, shutVars, notifyVars>>
notReader == <<coreVars, captureVars, vadVars, gateVars, bufferVars, resampleVars, llmVars,
               feedVars, queryVars, shutVars, notifyVars>>
\* Everything the feeding of the recognizer leaves alone.
notBridge == <<orchVars, envVars, taskVars, histVars, captureVars, vadVars, gateVars,
               bufferVars, resampleVars, llmVars, readerVars, queryVars, shutVars, notifyVars>>

InFlight == {t \in Tasks : pc[t] \notin {"none", "done"}}

\* ------------------------------------------------------------ pure helpers

\* _set_state without its mute guard.
SetStateUnguarded(cur, m, new) == new

\* Orchestrator._set_state: the new value of self.state.
SetState(cur, m, new) == IF m /\ new # MUTED THEN cur ELSE new

\* ConfidenceGate.decide: the action of the decision.
Decide(needs_response, confidence) ==
    IF ~needs_response THEN SILENT
    ELSE IF confidence >= AutoThreshold THEN RESPOND
    ELSE SILENT

\* The decision taken from the gate whether forced or not.
DecisionFromGate(forced, needs_response, confidence) ==
    Decide(needs_response, confidence)

\* Gate decision of _check_and_respond (forced: RESPOND without the gate).
Decision(forced, needs_response, confidence) ==
    IF forced THEN RESPOND ELSE Decide(needs_response, confidence)

\* Orchestrator.run: the condition under which an iteration starts a check.
TimeSinceSpeech == IF last_speech_time > 0 THEN now - last_speech_time ELSE 0
\* The new-speech test with >= for >.
HasNewSpeechOrSame == last_speech_time >= last_checked_speech_time
HasNewSpeech == last_speech_time > last_checked_speech_time
ShouldCheck ==
    /\ HasNewSpeech
    /\ TimeSinceSpeech > SilenceInterval
    /\ ~pending_check
    /\ state \in {IDLE, LISTENING}

\* Orchestrator.force_respond: the states in which it returns at once.
ForceBlocked == state \in {SPEAKING, THINKING}

\* ------------------------------------------------------------------- Init
\* The state after Orchestrator.start() has returned (recognizer launched and
\* ready) and main.run() has applied --listen-only (muted without a state
\* change) or not.
OrchInit ==
    /\ state = IDLE
    /\ muted \in BOOLEAN
    /\ pending_check = FALSE
    /\ last_speech_time = 0
    /\ last_checked_speech_time = 0
    /\ now = 1
    /\ textBlank = TRUE
    /\ playing = 0
    /\ asr_running = TRUE
    /\ process = InitialPid
    /\ model_ready = TRUE
    /\ warming_up = FALSE
    /\ alive = {InitialPid}
    /\ loaded = {InitialPid}
    /\ stdoutReaders = {InitialPid}
    /\ write_buffer = <<>>
    /\ pc = [t \in Tasks |-> "none"]
    /\ force = [t \in Tasks |-> FALSE]
    /\ ret = [t \in Tasks |-> FALSE]
    /\ waitPid = [t \in Tasks |-> NoProcess]
    /\ nCreated = 0
    /\ mutedSince = [t \in Tasks |-> FALSE]
    /\ failed = [t \in Tasks |-> FALSE]
    /\ raised = [t \in Tasks |-> FALSE]
    /\ arrivedSinceCheck = FALSE
    /\ lastArrival = 0
    /\ muteToggled = FALSE
    /\ skipped = [t \in Tasks |-> FALSE]

\* The pipeline as main.run() starts it; the components modelled on their own
\* below are idle in their constructed state.
ComponentsInit ==
    /\ CaptureInit(1, 100)
    /\ VadInit(1)
    /\ GateInit(AutoThreshold)
    /\ BufferInit
    /\ ResampleInit
    /\ LlmInit
    /\ FeedInit
    /\ ReaderInit
    /\ QueryInit
    /\ ShutInit
    /\ NotifyInit

Init == OrchInit /\ ComponentsInit

\* asyncio.create_task(self._check_and_respond(force=f)): the task is scheduled
\* and starts running at a later step.
CreateTask(f) ==
    /\ nCreated < MaxSeqs
    /\ nCreated' = nCreated + 1
    /\ pc' = [pc EXCEPT ![nCreated + 1] = "created"]
    /\ force' = [force EXCEPT ![nCreated + 1] = f]
    /\ mutedSince' = [mutedSince EXCEPT ![nCreated + 1] = muted]
    /\ UNCHANGED <<ret, waitPid, skipped>>

\* ---------------------------------------------------------------- controls

\* Orchestrator.toggle_mute (sd.stop() ends any playback).
ToggleMute ==
    /\ muted' = ~muted
    /\ IF ~muted
          THEN /\ state' = SetState(state, TRUE, MUTED)
               /\ playing' = 0
               /\ muteToggled' = TRUE
               /\ UNCHANGED mutedSince
          ELSE /\ state' = SetState(IDLE, FALSE, IDLE)
               /\ muteToggled' = FALSE
               /\ mutedSince' = [t \in Tasks |-> FALSE]
               /\ UNCHANGED playing
    /\ UNCHANGED <<pending_check, last_speech_time, last_checked_speech_time,
                   now, textBlank, asrVars, taskVars, failed, raised,
                   arrivedSinceCheck, lastArrival, skipped>>
    /\ UNCHANGED componentVars

\* Orchestrator.force_respond.
ForceRespond ==
    /\ ~ForceBlocked
    /\ CreateTask(TRUE)
    /\ UNCHANGED <<orchVars, envVars, asrVars, failed, raised,
                   arrivedSinceCheck, lastArrival, muteToggled>>
    /\ UNCHANGED componentVars

\* Orchestrator.skip_response: sd.stop() ends whatever playback there is, then
\* _set_state(IDLE).  No task is cancelled and no other field is written.
Skip ==
    /\ playing' = 0
    /\ state' = SetState(state, muted, IDLE)
    /\ UNCHANGED <<muted, pending_check, last_speech_time, last_checked_speech_time,
                   now, textBlank, asrVars, taskVars, mutedSince, failed, raised,
                   arrivedSinceCheck, lastArrival, muteToggled>>
    /\ UNCHANGED componentVars

SkipResponse ==
    /\ Skip
    /\ UNCHANGED skipped

\* The same call, with the sequences it found under way (past their first
\* suspension point, not yet ended) while unmuted noted in the history variable
\* skipped.
SkipResponseNoted ==
    /\ Skip
    /\ skipped' = [t \in Tasks |->
                       skipped[t] \/ (~muted /\ pc[t] \notin {"none", "created", "done"})]

\* ------------------------------------------------- recognizer and clock

\* time.monotonic() advances.
Tick ==
    /\ now < MaxTime
    /\ now' = now + 1
    /\ UNCHANGED <<orchVars, textBlank, playing, asrVars, taskVars, histVars>>
    /\ UNCHANGED componentVars

\* on_asr_text, called by _read_stdout with a fragment read from process p.
\* A process emits text only once its model is loaded and it was fed audio;
\* a task woken by the ready event resumes before a second of audio has been
\* buffered for the new process, so no fragment arrives in between.  After the
\* callback the reader's loop test ends the reader when the bridge was stopped.
Transcript(p) ==
    /\ p \in alive /\ p \in loaded /\ p \in stdoutReaders
    /\ \A t \in Tasks : pc[t] # "woken"
    /\ textBlank' = FALSE
    /\ last_speech_time' = now
    /\ state' = IF state = IDLE THEN SetState(state, muted, LISTENING) ELSE state
    /\ stdoutReaders' = IF ~asr_running \/ process = NoProcess
                           THEN stdoutReaders \ {p}
                           ELSE (stdoutReaders \ {p}) \cup {process}
    /\ arrivedSinceCheck' = TRUE
    /\ lastArrival' = now
    /\ UNCHANGED <<muted, pending_check, last_checked_speech_time, now, playing,
                   asr_running, process, model_ready, warming_up, alive, loaded,
                   write_buffer, taskVars, mutedSince, failed, raised, muteToggled,
                   skipped>>
    /\ UNCHANGED componentVars

\* _read_stderr reads "Model loaded" from process p: the bridge leaves warm-up
\* and sets the ready event, which wakes every task suspended in wait_ready().
ModelLoaded(p) ==
    /\ p \in alive /\ p \notin loaded
    /\ loaded' = loaded \cup {p}
    /\ warming_up' = FALSE
    /\ model_ready' = TRUE
    /\ pc' = [t \in Tasks |-> IF pc[t] = "wait_ready" THEN "woken" ELSE pc[t]]
    /\ UNCHANGED <<orchVars, envVars, asr_running, process, alive, stdoutReaders,
                   write_buffer, force, ret, waitPid, nCreated, histVars>>
    /\ UNCHANGED componentVars

\* A recognizer process exits by itself (its readers see end of file).
ProcessExits(p) ==
    /\ p \in alive
    /\ alive' = alive \ {p}
    /\ stdoutReaders' = stdoutReaders \ {p}
    /\ UNCHANGED <<orchVars, envVars, asr_running, process, model_ready, warming_up,
                   loaded, write_buffer, taskVars, histVars>>
    /\ UNCHANGED componentVars

\* VoxtralASR.feed_audio -> _flush_buffer: writing to a process that has exited
\* raises BrokenPipeError, which marks the bridge as not running.
BrokenPipe ==
    /\ asr_running /\ process # NoProcess /\ ~warming_up
    /\ process \notin alive
    /\ asr_running' = FALSE
    /\ UNCHANGED <<orchVars, envVars, process, model_ready, warming_up, alive,
                   loaded, stdoutReaders, write_buffer, taskVars, histVars>>
    /\ UNCHANGED componentVars

\* Orchestrator.run: an iteration whose silence test starts a check.
RunTrigger ==
    /\ ShouldCheck
    /\ pending_check' = TRUE
    /\ last_checked_speech_time' = last_speech_time
    /\ state' = SetState(state, muted, DETECTING)
    /\ CreateTask(FALSE)
    /\ arrivedSinceCheck' = FALSE
    /\ UNCHANGED <<muted, last_speech_time, envVars, asrVars, failed, raised,
                   lastArrival, muteToggled>>
    /\ UNCHANGED componentVars

\* ------------------------------------------ _check_and_respond: its steps

\* Task t moves to suspension point p with the given ret and waitPid and
\* history flags; a task that has ended keeps only whether it raised.
Goto(t, p, r, w, fl, rz) ==
    /\ pc' = [pc EXCEPT ![t] = p]
    /\ raised' = [raised EXCEPT ![t] = rz]
    /\ IF p = "done"
          THEN /\ ret' = [ret EXCEPT ![t] = FALSE]
               /\ waitPid' = [waitPid EXCEPT ![t] = NoProcess]
               /\ force' = [force EXCEPT ![t] = FALSE]
               /\ mutedSince' = [mutedSince EXCEPT ![t] = FALSE]
               /\ failed' = [failed EXCEPT ![t] = FALSE]
               /\ skipped' = [skipped EXCEPT ![t] = FALSE]
          ELSE /\ ret' = [ret EXCEPT ![t] = r]
               /\ waitPid' = [waitPid EXCEPT ![t] = w]
               /\ failed' = [failed EXCEPT ![t] = fl]
               /\ UNCHANGED <<force, mutedSince, skipped>>
    /\ UNCHANGED nCreated
    /\ UNCHANGED componentVars

\* Task t only moves to p.
Step(t, p) == Goto(t, p, ret[t], waitPid[t], failed[t], raised[t])

\* The sequence ends in IDLE with the pending flag cleared: the early returns
\* (lines 280-282, 308-311), the outer except (391-393), each followed by the
\* outer finally (394-395).
EndIdle(t, rz) ==
    /\ state' = SetState(state, muted, IDLE)
    /\ pending_check' = FALSE
    /\ Goto(t, "done", FALSE, NoProcess, FALSE, rz)
    /\ UNCHANGED <<muted, last_speech_time, last_checked_speech_time>>

\* The end of the cycle marking the clock reading, not the last speech, as
\* checked.
AfterRestartMarksNow(t, st, r, rz) ==
    /\ last_checked_speech_time' = now
    /\ state' = IF r THEN st ELSE SetState(st, muted, IDLE)
    /\ pending_check' = FALSE
    /\ Goto(t, "done", FALSE, NoProcess, FALSE, rz)
    /\ UNCHANGED <<muted, last_speech_time>>

\* Lines 385-395, after the restarted recognizer is ready: the last-checked
\* timestamp advances, then either the pending return of the inner except (r)
\* or lines 388-389, then the outer finally.
AfterRestart(t, st, r, rz) ==
    /\ last_checked_speech_time' = last_speech_time
    /\ state' = IF r THEN st ELSE SetState(st, muted, IDLE)
    /\ pending_check' = FALSE
    /\ Goto(t, "done", FALSE, NoProcess, FALSE, rz)
    /\ UNCHANGED <<muted, last_speech_time>>

\* The inner finally (lines 379-386), entered with self.state = st and the
\* return of the inner except pending or not (r): asr.start() returns at once
\* on a running bridge, else it awaits the launch of a process; wait_ready()
\* returns at once when the ready event is set.
InnerFinally(t, st, r, fl, rz) ==
    IF asr_running
       THEN IF model_ready
               THEN AfterRestart(t, st, r, rz)
               ELSE /\ state' = st
                    /\ Goto(t, "wait_ready", r, waitPid[t], fl, rz)
                    /\ UNCHANGED <<muted, pending_check, last_speech_time,
                                   last_checked_speech_time>>
       ELSE /\ state' = st
            /\ Goto(t, "starting", r, waitPid[t], fl, rz)
            /\ UNCHANGED <<muted, pending_check, last_speech_time,
                           last_checked_speech_time>>

\* The inner except without its _set_state(IDLE).
InnerExceptKeepsState(t, fl) ==
    InnerFinally(t, state, TRUE, fl, TRUE)

\* The inner except (lines 375-378): IDLE, return pending, then the finally.
InnerExcept(t, fl) ==
    InnerFinally(t, SetState(state, muted, IDLE), TRUE, fl, TRUE)

\* Lines 275-290: the task starts running.
Begin(t) ==
    /\ pc[t] = "created"
    /\ IF textBlank
          THEN /\ state' = SetState(SetState(state, muted, DETECTING), muted, IDLE)
               /\ pending_check' = FALSE
               /\ Goto(t, "done", FALSE, NoProcess, FALSE, raised[t])
               /\ UNCHANGED <<muted, last_speech_time, last_checked_speech_time>>
          ELSE /\ state' = SetState(state, muted, DETECTING)
               /\ Step(t, "classify")
               /\ UNCHANGED <<muted, pending_check, last_speech_time,
                              last_checked_speech_time>>
    /\ UNCHANGED <<envVars, asrVars, arrivedSinceCheck, lastArrival, muteToggled>>

\* The gate of the sequence without its test of the mute flag.
GateIgnoringMute(t, needs_response, confidence, fl) ==
    IF Decision(force[t], needs_response, confidence) # RESPOND
       THEN EndIdle(t, raised[t])
       ELSE /\ state' = SetState(state, muted, THINKING)
            /\ Goto(t, "generate", ret[t], waitPid[t], fl, raised[t])
            /\ UNCHANGED <<muted, pending_check, last_speech_time,
                           last_checked_speech_time>>

\* Lines 288-330 with a classification result: the gate, then either the
\* return to IDLE or THINKING and the call of the responder.
Gate(t, needs_response, confidence, fl) ==
    IF Decision(force[t], needs_response, confidence) # RESPOND \/ muted
       THEN EndIdle(t, raised[t])
       ELSE /\ state' = SetState(state, muted, THINKING)
            /\ Goto(t, "generate", ret[t], waitPid[t], fl, raised[t])
            /\ UNCHANGED <<muted, pending_check, last_speech_time,
                           last_checked_speech_time>>

\* The classifier's call returns: a parsed result, the default result of a
\* failed classification (IntentClassifier.classify, lines 129-136), or the
\* executor call raises.
ClassifyDone(t) ==
    /\ pc[t] = "classify"
    /\ \/ \E nr \in BOOLEAN, c \in Confidences : Gate(t, nr, c, failed[t])
       \/ Gate(t, TRUE, FailedConfidence, TRUE)
       \/ EndIdle(t, TRUE)
    /\ UNCHANGED <<envVars, asrVars, arrivedSinceCheck, lastArrival, muteToggled>>

\* VoxtralASR.stop() up to its first suspension (lines 166-170).
StopBegin(t, fl) ==
    /\ asr_running' = FALSE
    /\ Goto(t, IF process = NoProcess THEN "settle" ELSE "stop_closing",
            ret[t], waitPid[t], fl, raised[t])
    /\ UNCHANGED <<process, model_ready, warming_up, alive, loaded, stdoutReaders,
                   write_buffer>>

\* Lines 331-348: the responder's call returns a text (its own or, when the
\* generation failed, the fallback of Responder.generate lines 114-116), the
\* state becomes SPEAKING and the recognizer's stop begins; or the executor
\* call raises.
GenerateDone(t) ==
    /\ pc[t] = "generate"
    /\ \/ \E genFailed \in BOOLEAN :
            /\ state' = SetState(state, muted, SPEAKING)
            /\ StopBegin(t, failed[t] \/ genFailed)
            /\ UNCHANGED <<muted, pending_check, last_speech_time,
                           last_checked_speech_time>>
       \/ /\ EndIdle(t, TRUE)
          /\ UNCHANGED asrVars
    /\ UNCHANGED <<envVars, arrivedSinceCheck, lastArrival, muteToggled>>

\* VoxtralASR.stop(), lines 171-175, after stdin.wait_closed(): terminate() on
\* the handle as it is now.  No handle: AttributeError.  A process that has
\* already exited: terminate() raises ProcessLookupError or does nothing,
\* depending on whether its transport is closed yet; then wait() returns at
\* once and the handle is dropped (line 180).
StopTerminate(t) ==
    /\ pc[t] = "stop_closing"
    /\ IF process = NoProcess
          THEN /\ InnerExcept(t, failed[t])
               /\ UNCHANGED asrVars
          ELSE IF process \in alive
          THEN /\ Goto(t, "stop_waiting", ret[t], process, failed[t], raised[t])
               /\ UNCHANGED <<orchVars, asrVars>>
          ELSE \/ /\ InnerExcept(t, failed[t])
                  /\ UNCHANGED asrVars
               \/ /\ process' = NoProcess
                  /\ Step(t, "settle")
                  /\ UNCHANGED <<orchVars, asr_running, model_ready, warming_up,
                                 alive, loaded, stdoutReaders, write_buffer>>
    /\ UNCHANGED <<envVars, arrivedSinceCheck, lastArrival, muteToggled>>

\* VoxtralASR.stop(), lines 175-180: the awaited process exits within the
\* grace period, or the wait times out and the handle as it is now is killed
\* and awaited (AttributeError when there is none); then the handle is dropped.
StopWaited(t) ==
    /\ pc[t] = "stop_waiting"
    /\ \/ /\ alive' = alive \ {waitPid[t]}
          /\ stdoutReaders' = stdoutReaders \ {waitPid[t]}
          /\ process' = NoProcess
          /\ Step(t, "settle")
          /\ UNCHANGED <<orchVars, asr_running, model_ready, warming_up, loaded,
                         write_buffer>>
       \/ /\ waitPid[t] \in alive
          /\ IF process = NoProcess
                THEN /\ InnerExcept(t, failed[t])
                     /\ UNCHANGED asrVars
                ELSE /\ alive' = alive \ {process}
                     /\ stdoutReaders' = stdoutReaders \ {process}
                     /\ process' = NoProcess
                     /\ Step(t, "settle")
                     /\ UNCHANGED <<orchVars, asr_running, model_ready, warming_up,
                                    loaded, write_buffer>>
    /\ UNCHANGED <<envVars, arrivedSinceCheck, lastArrival, muteToggled>>

\* Lines 349-354: the settle delay is over, synthesis is requested.
SettleDone(t) ==
    /\ pc[t] = "settle"
    /\ Step(t, "synth")
    /\ UNCHANGED <<orchVars, envVars, asrVars, arrivedSinceCheck, lastArrival,
                   muteToggled>>

\* Lines 352-378: the synthesis call returns audio, which is handed to the
\* playback executor unless muted, or it raises.
SynthDone(t) ==
    /\ pc[t] = "synth"
    /\ \/ IF ~muted
             THEN /\ Step(t, "play_queued")
                  /\ UNCHANGED orchVars
             ELSE InnerFinally(t, state, FALSE, failed[t], raised[t])
       \/ InnerExcept(t, TRUE)
    /\ UNCHANGED <<envVars, asrVars, arrivedSinceCheck, lastArrival, muteToggled>>

\* _play_audio in the executor thread: sd.play() starts the playback (replacing
\* any other), or raises, which line 372 catches.
PlayStarts(t) ==
    /\ pc[t] = "play_queued"
    /\ \/ /\ playing' = t
          /\ Step(t, "playing")
          /\ UNCHANGED orchVars
       \/ /\ InnerFinally(t, state, FALSE, failed[t], TRUE)
          /\ UNCHANGED playing
    /\ UNCHANGED <<now, textBlank, asrVars, arrivedSinceCheck, lastArrival, muteToggled>>

\* sd.wait() returns: the playback finished or sd.stop() ended it.
PlayDone(t) ==
    /\ pc[t] = "playing"
    /\ playing' = IF playing = t THEN 0 ELSE playing
    /\ InnerFinally(t, state, FALSE, failed[t], raised[t])
    /\ UNCHANGED <<now, textBlank, asrVars, arrivedSinceCheck, lastArrival, muteToggled>>

\* A start() that keeps the audio buffered before the stop.
Kept(buf) == buf
\* start(), line 64: self._write_buffer.clear().
Cleared(buf) == <<>>

\* VoxtralASR.start(), lines 58-73: create_subprocess_exec returns the new
\* process and the bridge is reset for it, then wait_ready() suspends on the
\* event just cleared; or the launch raises, which the outer except handles.
StartSpawned(t) ==
    /\ pc[t] = "starting"
    /\ \/ /\ alive' = alive \cup {SpawnPid(t)}
          /\ process' = SpawnPid(t)
          /\ write_buffer' = Cleared(write_buffer)
          /\ model_ready' = FALSE
          /\ warming_up' = TRUE
          /\ asr_running' = TRUE
          /\ stdoutReaders' = stdoutReaders \cup {SpawnPid(t)}
          /\ Step(t, "wait_ready")
          /\ UNCHANGED <<orchVars, loaded>>
       \/ /\ EndIdle(t, TRUE)
          /\ UNCHANGED asrVars
    /\ UNCHANGED <<envVars, arrivedSinceCheck, lastArrival, muteToggled>>

\* wait_ready() returns to a task the ready event woke.
WaitReadyDone(t) ==
    /\ pc[t] = "woken"
    /\ AfterRestart(t, state, ret[t], raised[t])
    /\ UNCHANGED <<envVars, asrVars, arrivedSinceCheck, lastArrival, muteToggled>>

TaskStep(t) ==
    \/ Begin(t)
    \/ ClassifyDone(t)
    \/ GenerateDone(t)
    \/ StopTerminate(t)
    \/ StopWaited(t)
    \/ SettleDone(t)
    \/ SynthDone(t)
    \/ PlayStarts(t)
    \/ PlayDone(t)
    \/ StartSpawned(t)
    \/ WaitReadyDone(t)

Next ==
    \/ ToggleMute
    \/ ForceRespond
    \/ SkipResponse
    \/ Tick
    \/ RunTrigger
    \/ BrokenPipe
    \/ \E p \in Pids : Transcript(p)
    \/ \E p \in Pids : ModelLoaded(p)
    \/ \E p \in Pids : ProcessExits(p)
    \/ \E t \in Tasks : TaskStep(t)

Spec == Init /\ [][Next]_vars

\* The event loop runs every task that can continue: external calls return or
\* time out.  Nothing obliges the user to press a key, a recognizer process to
\* load its model, or speech to arrive.
FairSpec == Spec /\ \A t \in Tasks : WF_vars(TaskStep(t))

\* The orchestrator started unmuted, when of the three keys only skip is ever
\* pressed, with the skipped sequences noted.
SkipNext ==
    \/ SkipResponseNoted
    \/ Tick
    \/ RunTrigger
    \/ BrokenPipe
    \/ \E p \in Pids : Transcript(p)
    \/ \E p \in Pids : ModelLoaded(p)
    \/ \E p \in Pids : ProcessExits(p)
    \/ \E t \in Tasks : TaskStep(t)

SkipSpecInit == Init /\ ~muted

SkipSpec == SkipSpecInit /\ [][SkipNext]_vars

\* ----------------------------------------------------------------- claims

\* Tasks past their first suspension point and not yet ended.
Running == {t \in Tasks : pc[t] \notin {"none", "created", "done"}}
\* Suspension points at which a synthesis request or a playback is in progress.
SynthesisPcs == {"synth", "play_queued", "playing"}
\* Suspension points of the recognizer restart and its ready-wait.
RestartPcs == {"starting", "wait_ready", "woken"}

\* C1: under every interleaving of the main loop's silence trigger,
\* force_respond, skip_response and toggle_mute, at most one detect/respond
\* sequence is in flight at any time.
C1_AtMostOneSequence == Cardinality(Running) <= 1

\* C2: whenever a synthesis request or a response playback is in progress, no
\* recognizer process is running.
C2_RecognizerStoppedDuringSynthesis ==
    (\E t \in Tasks : pc[t] \in SynthesisPcs) => alive = {}

\* C3: a cycle that reached the synthesis step returns the state to IDLE only
\* once its recognizer restart and ready-wait have completed: a step of the
\* cycle that makes the state IDLE is the step that ends it.
C3_IdleOnlyAfterRestart ==
    [][\A t \in Tasks :
          (pc[t] \in SynthesisPcs /\ pc'[t] # pc[t] /\ state # IDLE /\ state' = IDLE)
              => pc'[t] = "done"]_vars

\* C4: a sequence in which a step raised, ending while the pipeline is not
\* muted, ends with the state IDLE and the pending-check flag false.
C4_RaisedEndsIdle ==
    [][\A t \in Tasks :
          (pc[t] \notin {"none", "done"} /\ pc'[t] = "done" /\ raised'[t] /\ ~muted')
              => (state' = IDLE /\ ~pending_check')]_vars

\* The recognizer that task t launched exited before its model-load line was
\* read, while t waits for it to be ready.
RestartFailed(t) ==
    /\ pc[t] = "wait_ready"
    /\ SpawnPid(t) \notin alive
    /\ SpawnPid(t) \notin loaded

\* C5: when the recognizer restart after synthesis does not complete, the
\* orchestrator still eventually returns to IDLE with the pending-check flag
\* cleared.
C5_RestartFailureReturnsToIdle ==
    \A t \in Tasks :
        [](RestartFailed(t) => <>((state = IDLE \/ muted) /\ ~pending_check))

\* A step in which the main loop starts a check (a task that is not forced
\* is created).
SilenceCheckStarts == nCreated' = nCreated + 1 /\ ~force'[nCreated']

\* C6: the main loop starts a check only when a transcript arrived since the
\* last check it started and after the last checked speech timestamp, the
\* silence since the latest arrival exceeds the silence
\* threshold, no check is pending and the state is IDLE or LISTENING; so one
\* arrival starts at most one check and further silence starts none.
C6_CheckOnlyWhenDue ==
    [][SilenceCheckStarts =>
          /\ arrivedSinceCheck
          /\ lastArrival > last_checked_speech_time
          /\ now - lastArrival > SilenceInterval
          /\ ~pending_check
          /\ state \in {IDLE, LISTENING}]_vars

\* The main loop has just started a check for the latest arrival.
C6_Witness ==
    \E t \in Tasks :
        /\ pc[t] = "created" /\ ~force[t]
        /\ pending_check /\ state = DETECTING
        /\ ~arrivedSinceCheck /\ now - lastArrival > SilenceInterval

\* C7: from the toggle_mute call that enters mute until the one that leaves
\* it the state is MUTED after every step, and the call that leaves mute sets
\* the state to IDLE.
C7_MutedUntilUnmuted ==
    [][/\ muteToggled' => state' = MUTED
       /\ (muted /\ ~muted') => state' = IDLE]_vars

\* Mute was entered by toggle_mute while a sequence is past its first
\* suspension point, after a transcript arrived.
C7_Witness ==
    /\ muteToggled /\ state = MUTED
    /\ lastArrival > 0
    /\ \E t \in Tasks : pc[t] \in {"generate", "playing", "wait_ready"}

\* Suspension points at which an external collaborator has been invoked.
ExternalPcs ==
    {"classify", "generate", "stop_closing", "stop_waiting", "settle", "synth",
     "play_queued", "playing", "starting", "wait_ready", "woken"}

\* C8: while the pipeline is muted, force_respond invokes no external
\* collaborator: a forced task created while muted, with mute not left since,
\* is at no suspension point of an external call.
C8_ForceRespondMutedNoOp ==
    \A t \in Tasks : (force[t] /\ mutedSince[t]) => pc[t] \notin ExternalPcs

\* C9: whenever a sequence is past its first suspension point and has not
\* ended, the pending-check flag is true.
C9_PendingWhileInFlight == Running # {} => pending_check

RingAppendUnbounded(rb, c, maxlen) == Append(rb, c)

\* collections.deque(maxlen=n).append (lines 64-66, 87): a full deque drops
\* its oldest element; one of maxlen 0 stays empty.
RingAppend(rb, c, maxlen) ==
    IF maxlen = 0 THEN rb
    ELSE IF Len(rb) >= maxlen THEN Append(Tail(rb), c)
    ELSE Append(rb, c)

\* asyncio.Queue.full().
QueueFull(q) == Len(q) >= QueueMaxsize

\* A _queue_put that drops the new chunk when the queue is full.
QueuePutDropNewest(q, c) == IF QueueFull(q) THEN q ELSE Append(q, c)

\* AudioCapture._queue_put: the queue after the call.
QueuePut(q, c) ==
    IF ~QueueFull(q) THEN Append(q, c)
    ELSE LET q1 == IF q = <<>> THEN q ELSE Tail(q)
         IN  IF QueueFull(q1) THEN q1 ELSE Append(q1, c)

\* AudioCapture._callback in the audio thread: the block becomes a chunk, is
\* appended to the ring buffer and its delivery is handed to the event loop.
Callback ==
    /\ nProduced < MaxChunks
    /\ nProduced' = nProduced + 1
    /\ ring_buffer' = RingAppend(ring_buffer, nProduced + 1,
                                 MaxBlocks(sample_rate, block_size))
    /\ scheduled' = Append(scheduled, nProduced + 1)
    /\ UNCHANGED <<sample_rate, block_size, cap_queue, lastReceived>>
    /\ UNCHANGED notCapture

\* The event loop runs the oldest scheduled _queue_put.
RunQueuePut ==
    /\ scheduled # <<>>
    /\ cap_queue' = QueuePut(cap_queue, Head(scheduled))
    /\ scheduled' = Tail(scheduled)
    /\ UNCHANGED <<sample_rate, block_size, ring_buffer, nProduced, lastReceived>>
    /\ UNCHANGED notCapture

\* AudioCapture.stream: the consumer's queue.get() returns the oldest chunk.
StreamGet ==
    /\ cap_queue # <<>>
    /\ lastReceived' = Head(cap_queue)
    /\ cap_queue' = Tail(cap_queue)
    /\ UNCHANGED <<sample_rate, block_size, ring_buffer, scheduled, nProduced>>
    /\ UNCHANGED notCapture

CaptureSpecInit ==
    /\ OrchInit /\ ~muted
    /\ \E rate \in SampleRates, block \in BlockSizes : CaptureInit(rate, block)
    /\ VadInit(1)
    /\ GateInit(AutoThreshold)
    /\ BufferInit
    /\ ResampleInit
    /\ LlmInit
    /\ FeedInit
    /\ ReaderInit
    /\ QueryInit
    /\ ShutInit
    /\ NotifyInit

CaptureNext ==
    \/ Callback
    \/ RunQueuePut
    \/ StreamGet

CaptureSpec == CaptureSpecInit /\ [][CaptureNext]_vars

\* ------------------------------------------------- audio capture: claims

\* A step that runs a _queue_put.
IsQueuePut == Len(scheduled') < Len(scheduled)

\* C11: the delivery queue never holds more than its bound; a _queue_put on a
\* full queue drops exactly the oldest queued chunk and inserts the new one,
\* so after every _queue_put the chunk it was given is the newest of the
\* queue; and the consumer receives chunks in production order.
C11_QueueDropsOldest ==
    [][/\ Len(cap_queue') <= QueueMaxsize
       /\ IsQueuePut =>
            /\ cap_queue' # <<>>
            /\ cap_queue'[Len(cap_queue')] = Head(scheduled)
            /\ cap_queue' = IF Len(cap_queue) = QueueMaxsize
                               THEN Append(Tail(cap_queue), Head(scheduled))
                               ELSE Append(cap_queue, Head(scheduled))
       /\ \A i \in 1..Len(cap_queue') :
            /\ cap_queue'[i] > lastReceived'
            /\ i > 1 => cap_queue'[i] > cap_queue'[i - 1]
       /\ lastReceived' >= lastReceived]_vars

\* The consumer stalled, chunks were dropped, and the consumer then received
\* the oldest chunk still queued.
C11_Witness ==
    /\ Len(cap_queue) = QueueMaxsize
    /\ lastReceived > 1
    /\ cap_queue[1] > lastReceived + 1

\* Chunks pushed so far that a ring buffer of the given maxlen retains.
Retained(maxlen) ==
    IF nProduced <= maxlen THEN [i \in 1..nProduced |-> i]
    ELSE [i \in 1..maxlen |-> nProduced - maxlen + i]

\* C12: the ring buffer holds at most (120 * sample_rate) div block_size
\* chunks, and they are the most recently pushed ones in push order; after
\* more pushes than that it holds exactly that many.
C12_RingKeepsMostRecent ==
    /\ Len(ring_buffer) <= (RING_BUFFER_SECONDS * sample_rate) \div block_size
    /\ ring_buffer = Retained((RING_BUFFER_SECONDS * sample_rate) \div block_size)

\* More chunks were pushed than a ring buffer of several chunks holds.
C12_Witness ==
    /\ MaxBlocks(sample_rate, block_size) >= 2
    /\ nProduced > MaxBlocks(sample_rate, block_size) + 1
    /\ Len(ring_buffer) = MaxBlocks(sample_rate, block_size)

\* ------------------------------------ utterance boundary detector: actions

\* The detector's fields and history as one value, for the frame loop.
VadState ==
    [sp |-> is_speaking, ss |-> silence_start, st |-> speech_start,
     clk |-> vad_clock, ev |-> vad_events, fr |-> vad_frames]

\* One iteration of the loop of process() (lines 85-127) on a frame of
\* probability prob, the clock having advanced by dt since the last reading.
Frame(r, prob, dt, timeout) ==
    LET t == r.clk + dt
        seen == [r EXCEPT !.clk = t, !.fr = Append(r.fr, [prob |-> prob, time |-> t])]
    IN  IF prob >= SpeechThreshold
           THEN IF ~r.sp
                   THEN [seen EXCEPT !.ss = None, !.sp = TRUE, !.st = t,
                            !.ev = Append(r.ev, [type |-> "speech_start", time |-> t,
                                                 duration |-> 0])]
                   ELSE [seen EXCEPT !.ss = None]
           ELSE IF r.sp
                   THEN IF r.ss = None
                           THEN [seen EXCEPT !.ss = t]
                           ELSE IF t - r.ss >= timeout
                           THEN [seen EXCEPT !.sp = FALSE, !.st = None, !.ss = None,
                                    !.ev = Append(r.ev,
                                        [type |-> "speech_end", time |-> t,
                                         duration |-> t - (IF r.st # None THEN r.st ELSE t)])]
                           ELSE seen
                   ELSE seen

\* The loop of process() over the frames in, each a <<probability, dt>> pair.
RECURSIVE Frames(_, _, _)
Frames(r, in, timeout) ==
    IF in = <<>> THEN r
    ELSE Frames(Frame(r, Head(in)[1], Head(in)[2], timeout), Tail(in), timeout)

\* Sum of the clock advances of the frames in.
RECURSIVE Elapsed(_)
Elapsed(in) == IF in = <<>> THEN 0 ELSE Head(in)[2] + Elapsed(Tail(in))

\* VoiceActivityDetector.process(audio) with len(audio) = n: the audio joins
\* the buffer and every complete frame of it is classified.
Process(n) ==
    LET k == (vad_buffer + n) \div VAD_CHUNK_SIZE
    IN  /\ Len(vad_frames) + k <= MaxVadFrames
        /\ \E in \in [1..k -> Probs \X {0, 1}] :
             /\ vad_clock + Elapsed(in) <= MaxVadTime
             /\ LET r == Frames(VadState, in, silence_timeout)
                IN  /\ is_speaking' = r.sp
                    /\ silence_start' = r.ss
                    /\ speech_start' = r.st
                    /\ vad_clock' = r.clk
                    /\ vad_events' = r.ev
                    /\ vad_frames' = r.fr
        /\ vad_buffer' = (vad_buffer + n) % VAD_CHUNK_SIZE
        /\ UNCHANGED silence_timeout
        /\ UNCHANGED notVad

\* VoiceActivityDetector.reset(): a new session.
VadReset ==
    /\ vad_frames # <<>>
    /\ is_speaking' = FALSE
    /\ silence_start' = None
    /\ speech_start' = None
    /\ vad_buffer' = 0
    /\ vad_events' = <<>>
    /\ vad_frames' = <<>>
    /\ UNCHANGED <<silence_timeout, vad_clock>>
    /\ UNCHANGED notVad

VadSpecInit ==
    /\ OrchInit /\ ~muted
    /\ CaptureInit(1, 100)
    /\ \E timeout \in SilenceTimeouts : VadInit(timeout)
    /\ GateInit(AutoThreshold)
    /\ BufferInit
    /\ ResampleInit
    /\ LlmInit
    /\ FeedInit
    /\ ReaderInit
    /\ QueryInit
    /\ ShutInit
    /\ NotifyInit

VadNext ==
    \/ \E n \in AudioLens : Process(n)
    \/ VadReset

VadSpec == VadSpecInit /\ [][VadNext]_vars

\* ------------------------------------- utterance boundary detector: claims

\* The frames of the session are k frames at or above the threshold followed
\* by frames below it.
SpeechThenSilence(k) ==
    /\ k >= 1 /\ k < Len(vad_frames)
    /\ \A i \in 1..Len(vad_frames) :
          (vad_frames[i].prob >= SpeechThreshold) <=> (i <= k)

\* C13: frames at or above the threshold followed by frames below it whose
\* clock readings span at least silence_timeout yield exactly one
\* speech_start followed by exactly one speech_end whose duration is the
\* time between the two; and the events of any session alternate
\* speech_start, speech_end, ... beginning with speech_start.
C13_OneStartOneEnd ==
    /\ \A k \in 1..MaxVadFrames :
          (/\ SpeechThenSilence(k)
           /\ vad_frames[Len(vad_frames)].time - vad_frames[k + 1].time
                 >= silence_timeout)
          => /\ Len(vad_events) = 2
             /\ vad_events[1].type = "speech_start"
             /\ vad_events[2].type = "speech_end"
             /\ vad_events[2].duration = vad_events[2].time - vad_events[1].time
    /\ \A i \in 1..Len(vad_events) :
          vad_events[i].type = IF i % 2 = 1 THEN "speech_start" ELSE "speech_end"

\* ------------------------------------------------------- confidence gate

\* ConfidenceGate.decide with > for >= in the threshold test.
GateDecideStrict(intent, threshold) ==
    IF ~intent.needs_response
       THEN [action |-> SILENT, reason |-> "No response needed", intent |-> intent]
    ELSE IF intent.confidence > threshold
       THEN [action |-> RESPOND, reason |-> "Confident", intent |-> intent]
    ELSE [action |-> SILENT, reason |-> "Low confidence", intent |-> intent]

\* ConfidenceGate.decide (lines 31-62): the GateDecision returned; the
\* reason without its percentage.
GateDecide(intent, threshold) ==
    IF ~intent.needs_response
       THEN [action |-> SILENT, reason |-> "No response needed", intent |-> intent]
    ELSE IF intent.confidence >= threshold
       THEN [action |-> RESPOND, reason |-> "Confident", intent |-> intent]
    ELSE [action |-> SILENT, reason |-> "Low confidence", intent |-> intent]

\* A call gate.decide(intent).
DecideCall(intent) ==
    /\ gate_intent' = intent
    /\ gate_decision' = GateDecide(intent, auto_threshold)
    /\ UNCHANGED auto_threshold
    /\ UNCHANGED notGate

GateSpecInit ==
    /\ OrchInit /\ ~muted
    /\ CaptureInit(1, 100)
    /\ VadInit(1)
    /\ \E threshold \in AutoThresholds : GateInit(threshold)
    /\ BufferInit
    /\ ResampleInit
    /\ LlmInit
    /\ FeedInit
    /\ ReaderInit
    /\ QueryInit
    /\ ShutInit
    /\ NotifyInit

GateNext == \E intent \in IntentResults : DecideCall(intent)

GateSpec == GateSpecInit /\ [][GateNext]_vars

RECURSIVE LStrip(_)
LStrip(t) == IF t # <<>> /\ Head(t) \in Whitespace THEN LStrip(Tail(t)) ELSE t
RECURSIVE RStrip(_)
RStrip(t) ==
    IF t # <<>> /\ t[Len(t)] \in Whitespace THEN RStrip(SubSeq(t, 1, Len(t) - 1)) ELSE t
Strip(t) == RStrip(LStrip(t))

\* The boundary test without its end-of-text case.
BoundaryBeforeSpace(t, i) ==
    t[i] \in Terminals /\ i + 1 <= Len(t) /\ t[i + 1] = " "

\* add_text, line 40: position i of t ends a sentence.
Boundary(t, i) ==
    t[i] \in Terminals /\ (i + 1 > Len(t) \/ t[i + 1] = " ")

\* add_text, lines 37-52: the segments and the remainder after the loop has
\* split the working text t.
RECURSIVE Split(_, _)
Split(segs, t) ==
    IF \E i \in 1..Len(t) : Boundary(t, i)
       THEN LET i == CHOOSE j \in 1..Len(t) :
                        Boundary(t, j) /\ \A k \in 1..(j - 1) : ~Boundary(t, k)
                sentence == Strip(SubSeq(t, 1, i))
                rest == LStrip(SubSeq(t, i + 1, Len(t)))
            IN  Split(IF sentence # <<>> THEN Append(segs, sentence) ELSE segs, rest)
       ELSE [segs |-> segs, rest |-> t]

\* TranscriptBuffer.add_text(text): what it does to the buffer.
AddTextToBuffer(text) ==
    /\ textLen + Len(text) <= MaxTextLen
    /\ textLen' = textLen + Len(text)
    /\ LET r == Split(segments, current_text \o text)
       IN  /\ segments' = r.segs
           /\ current_text' = r.rest

\* TranscriptBuffer.add_text(text).
AddText(text) ==
    /\ AddTextToBuffer(text)
    /\ UNCHANGED notBuffer

\* TranscriptBuffer.flush(): what it does to the buffer.
FlushBuffer ==
    /\ IF Strip(current_text) # <<>>
          THEN /\ segments' = Append(segments, Strip(current_text))
               /\ current_text' = <<>>
          ELSE UNCHANGED <<segments, current_text>>
    /\ UNCHANGED textLen

\* TranscriptBuffer.flush().
Flush ==
    /\ FlushBuffer
    /\ UNCHANGED notBuffer

BufferSpecInit ==
    /\ OrchInit /\ ~muted
    /\ CaptureInit(1, 100)
    /\ VadInit(1)
    /\ GateInit(AutoThreshold)
    /\ BufferInit
    /\ ResampleInit
    /\ LlmInit
    /\ FeedInit
    /\ ReaderInit
    /\ QueryInit
    /\ ShutInit
    /\ NotifyInit

BufferNext ==
    \/ \E text \in Fragments : AddText(text)
    \/ Flush

BufferSpec == BufferSpecInit /\ [][BufferNext]_vars

\* Position i of t is a sentence terminal followed by whitespace or by the
\* end of t.
TerminalPosition(t, i) ==
    t[i] \in Terminals /\ (i = Len(t) \/ t[i + 1] \in Whitespace)

\* seg is the trimmed text up to and including the first terminal position.
IsSentence(seg) ==
    /\ seg # <<>>
    /\ seg = Strip(seg)
    /\ TerminalPosition(seg, Len(seg))
    /\ \A i \in 1..(Len(seg) - 1) : ~TerminalPosition(seg, i)

\* A step of add_text, and a step of flush().
IsAddText == textLen' > textLen
IsFlush == textLen' = textLen

\* C15: add_text appends, in input order, segments that are each the trimmed
\* text up to and including the first sentence terminal followed by
\* whitespace or by the end of the working text, and leaves a remainder
\* without such a position; flush() moves a non-empty remainder into exactly
\* one final segment and leaves the pending text empty.
C15_SegmentsAtSentenceEnds ==
    [][/\ IsAddText =>
            /\ Len(segments') >= Len(segments)
            /\ SubSeq(segments', 1, Len(segments)) = segments
            /\ \A k \in (Len(segments) + 1)..Len(segments') : IsSentence(segments'[k])
            /\ \A i \in 1..Len(current_text') : ~TerminalPosition(current_text', i)
       /\ (IsFlush /\ current_text # <<>>) =>
            /\ Len(segments') = Len(segments) + 1
            /\ SubSeq(segments', 1, Len(segments)) = segments
            /\ current_text' = <<>>]_vars

\* Position i of t is a sentence terminal followed by a space or by the end
\* of t.
SpacePosition(t, i) ==
    t[i] \in Terminals /\ (i = Len(t) \/ t[i + 1] = " ")

\* seg is the trimmed text up to and including the first such position.
IsSpaceSentence(seg) ==
    /\ seg # <<>>
    /\ seg = Strip(seg)
    /\ SpacePosition(seg, Len(seg))
    /\ \A i \in 1..(Len(seg) - 1) : ~SpacePosition(seg, i)

\* C15 as amended: a sentence ends at a terminal followed by a space (not
\* any whitespace) or by the end of the working text; flush() moves a
\* remainder that is not blank, trimmed, into exactly one final segment and
\* empties the pending text, and leaves a blank remainder as it is.
C15_SegmentsAtSpaceBoundaries ==
    [][/\ IsAddText =>
            /\ Len(segments') >= Len(segments)
            /\ SubSeq(segments', 1, Len(segments)) = segments
            /\ \A k \in (Len(segments) + 1)..Len(segments') :
                  IsSpaceSentence(segments'[k])
            /\ \A i \in 1..Len(current_text') : ~SpacePosition(current_text', i)
       /\ (IsFlush /\ Strip(current_text) # <<>>) =>
            /\ segments' = Append(segments, Strip(current_text))
            /\ current_text' = <<>>
       /\ (IsFlush /\ Strip(current_text) = <<>>) =>
            /\ segments' = segments
            /\ current_text' = current_text]_vars

\* add_text finalized a sentence that holds a terminal followed by a line
\* break, and flush() finalized the remainder.
C15_Witness ==
    /\ segments = << <<".", "\n", ".">>, <<"a">> >>
    /\ current_text = <<>>

\* -------------------------------------------------------------- resampler

\* A sample is a fraction <<numerator, denominator>>; sample k of a captured
\* block has the value k.
Block(n) == [k \in 1..n |-> <<k, 1>>]

\* _resample, lines 29-36.  n_samples = int(len(audio) * ratio) is the floor
\* of len * to / from (within the modelled lengths and rates the float
\* product is exact).  Output sample i (from 0) is at input position
\* i * from / to, clipped to the last index, and interpolates its two
\* neighbours.
Resample(audio, from, to) ==
    IF from = to THEN audio
    ELSE LET n == (Len(audio) * to) \div from
             last == Len(audio) - 1
             Sample(i) ==
                 LET clipped == i * from > last * to
                     lo == IF clipped THEN last ELSE (i * from) \div to
                     hi == IF lo + 1 < last THEN lo + 1 ELSE last
                     r == IF clipped THEN 0 ELSE (i * from) % to
                 IN  <<audio[lo + 1][1] * (to - r) + audio[hi + 1][1] * r, to>>
         IN  [i \in 1..n |-> Sample(i - 1)]

\* A call _resample(audio, from, to) on a block of n samples.
ResampleCall(n, from, to) ==
    /\ rs_audio' = Block(n)
    /\ rs_from' = from
    /\ rs_to' = to
    /\ rs_out' = Resample(Block(n), from, to)
    /\ UNCHANGED notResample

ResampleSpecInit ==
    /\ OrchInit /\ ~muted
    /\ CaptureInit(1, 100)
    /\ VadInit(1)
    /\ GateInit(AutoThreshold)
    /\ BufferInit
    /\ ResampleInit
    /\ LlmInit
    /\ FeedInit
    /\ ReaderInit
    /\ QueryInit
    /\ ShutInit
    /\ NotifyInit

ResampleNext ==
    \E n \in 0..MaxSamples, from \in Rates, to \in Rates : ResampleCall(n, from, to)

ResampleSpec == ResampleSpecInit /\ [][ResampleNext]_vars

\* round(num / den) as Python rounds: to the nearest integer, a half to the
\* even one.
Round(num, den) ==
    LET q == num \div den
        r == num % den
    IN  IF 2 * r < den THEN q
        ELSE IF 2 * r > den THEN q + 1
        ELSE IF q % 2 = 0 THEN q ELSE q + 1

\* C16: _resample returns round(N * t / f) samples for an input of N
\* samples and rates (f, t), the input unchanged when f = t, and nothing for
\* an input of length zero.
C16_ResampleLength ==
    /\ Len(rs_out) = Round(Len(rs_audio) * rs_to, rs_from)
    /\ rs_from = rs_to => rs_out = rs_audio
    /\ Len(rs_audio) = 0 => Len(rs_out) = 0

\* -------------------------------------------------- text-generation calls

\* The except clause of _call_ollama catching every failure.
RetryableAny(outcome) == outcome \in Failures

\* _call_ollama, lines 62 (intent.py) and 49 (responder.py): the failures
\* its except clause catches.
Retryable(outcome) == outcome \in TransportFailures

\* classify (line 129) and generate (line 114): "except Exception" handles
\* every failure of the call, the one _call_ollama re-raises included.
Handled(outcome) == outcome \in Failures

\* classify (lines 129-136) and generate (lines 114-116): the result their
\* except clause returns.
DefaultResult(caller) ==
    IF caller = "classify"
       THEN [kind |-> "default", needs_response |-> TRUE,
             confidence |-> FailedConfidence, text |-> "Classification failed"]
       ELSE [kind |-> "default", needs_response |-> FALSE, confidence |-> 0,
             text |-> Fallback]

\* What classify (lines 111-127) and generate (lines 106-112) return for a
\* reply; JSON that does not parse raises inside the try.
ReplyResults(caller, reply) ==
    IF caller = "classify"
       THEN IF reply = "no_json"
               THEN {[kind |-> "default", needs_response |-> TRUE,
                      confidence |-> UnparsedConfidence,
                      text |-> "Could not parse intent"]}
            ELSE IF reply = "bad_json" THEN {DefaultResult(caller)}
            ELSE {[kind |-> "parsed", needs_response |-> nr, confidence |-> c,
                   text |-> "summary"] : nr \in BOOLEAN, c \in Confidences}
       ELSE IF reply = "blank"
               THEN {DefaultResult(caller)}
               ELSE {[kind |-> "text", needs_response |-> FALSE, confidence |-> 0,
                      text |-> "reply"]}

\* IntentClassifier.classify or Responder.generate is called (in the
\* executor) and makes its first client.chat() call.
LlmCall(caller) ==
    /\ llm_at = "done"
    /\ llm_caller' = caller
    /\ llm_attempts' = <<>>
    /\ llm_at' = "chat"
    /\ llm_result' = NoResult
    /\ UNCHANGED notLlm

\* client.chat() returns a reply or raises: the rest of the loop iteration
\* of _call_ollama and, when it returns or raises (a failure it does not
\* catch, or the last one once the attempts are used up), of its caller.
ChatEnds(outcome) ==
    /\ llm_at = "chat"
    /\ llm_attempts' = Append(llm_attempts, outcome)
    /\ IF outcome \in Replies
          THEN /\ llm_at' = "done"
               /\ llm_result' \in ReplyResults(llm_caller, outcome)
          ELSE IF Retryable(outcome) /\ Len(llm_attempts) + 1 < MAX_RETRIES
          THEN /\ llm_at' = "sleep"
               /\ UNCHANGED llm_result
          ELSE IF Handled(outcome)
          THEN /\ llm_at' = "done"
               /\ llm_result' = DefaultResult(llm_caller)
          ELSE /\ llm_at' = "raised"
               /\ UNCHANGED llm_result
    /\ UNCHANGED llm_caller
    /\ UNCHANGED notLlm

\* time.sleep(RETRY_DELAY) is over: the next iteration calls client.chat().
RetryDelayOver ==
    /\ llm_at = "sleep"
    /\ llm_at' = "chat"
    /\ UNCHANGED <<llm_caller, llm_attempts, llm_result>>
    /\ UNCHANGED notLlm

LlmSpecInit ==
    /\ OrchInit /\ ~muted
    /\ CaptureInit(1, 100)
    /\ VadInit(1)
    /\ GateInit(AutoThreshold)
    /\ BufferInit
    /\ ResampleInit
    /\ LlmInit
    /\ FeedInit
    /\ ReaderInit
    /\ QueryInit
    /\ ShutInit
    /\ NotifyInit

LlmNext ==
    \/ \E caller \in {"classify", "generate"} : LlmCall(caller)
    \/ \E outcome \in Replies \cup Failures : ChatEnds(outcome)
    \/ RetryDelayOver

LlmSpec == LlmSpecInit /\ [][LlmNext]_vars

\* C17: at most MAX_RETRIES attempts; only a transport failure is followed
\* by another attempt, after the delay, and it is while attempts remain; and
\* every failure ends with classify or generate returning its default
\* result (needs_response with reduced confidence; the fallback sentence),
\* never raising.
C17_BoundedRetries ==
    /\ Len(llm_attempts) <= MAX_RETRIES
    /\ \A i \in 1..(Len(llm_attempts) - 1) : llm_attempts[i] \in TransportFailures
    /\ llm_at # "raised"
    /\ llm_attempts # <<>> =>
         LET last == llm_attempts[Len(llm_attempts)]
         IN  /\ (last \in TransportFailures /\ Len(llm_attempts) < MAX_RETRIES)
                   => llm_at \in {"sleep", "chat"}
             /\ llm_at \in {"sleep", "chat"} => last \in TransportFailures
             /\ (last \in Failures /\ llm_at = "done") =>
                   IF llm_caller = "classify"
                      THEN /\ llm_result.needs_response
                           /\ llm_result.confidence = FailedConfidence
                           /\ llm_result.confidence < AutoThreshold
                      ELSE llm_result.text = Fallback

\* classify gave up after MAX_RETRIES transport failures and returned its
\* default result.
C17_Witness ==
    /\ llm_caller = "classify"
    /\ llm_at = "done"
    /\ llm_attempts = <<"ConnectionError", "OSError", "ConnectionError">>
    /\ llm_result.kind = "default"

\* --------------------------------------------- orchestrator: more claims

\* A step in which force_respond starts a sequence.
ForcedStarts == nCreated' = nCreated + 1 /\ force'[nCreated']

\* A step in which the classifier's call of task t returns and the gate
\* decision is taken.
ReachesGate(t) == pc[t] = "classify" /\ pc'[t] # "classify" /\ ~raised'[t]

\* C18: force_respond starts a sequence in every state other than THINKING
\* and SPEAKING, whatever the silence and new-speech conditions are, and in
\* those two states starts nothing; starting one changes no orchestrator
\* field; and a forced sequence that reaches the gate takes the RESPOND
\* path (THINKING and the responder's call, unless muted) whatever the
\* classifier returned.
C18_ForceRespondStarts ==
    /\ []((state \notin {THINKING, SPEAKING} /\ nCreated < MaxSeqs)
            => ENABLED ForceRespond)
    /\ [][/\ ForcedStarts =>
               /\ state \notin {THINKING, SPEAKING}
               /\ UNCHANGED orchVars
          /\ \A t \in Tasks :
               (force[t] /\ ReachesGate(t) /\ ~muted) =>
                   /\ pc'[t] = "generate"
                   /\ state' = THINKING]_vars

\* A forced sequence started with no silence elapsed since the latest
\* transcript, while a silence-triggered check was pending, and passed the
\* gate.
C18_Witness ==
    \E t \in Tasks :
        /\ force[t] /\ pc[t] = "generate" /\ state = THINKING
        /\ now = last_speech_time
        /\ \E u \in Tasks : u # t /\ ~force[u] /\ pc[u] \notin {"none", "done"}

\* C19: skip_response called in an unmuted state leaves the state IDLE and the
\* playback stopped, and the response of a sequence that was in flight at the
\* call is not played, or played further, afterwards.
SkipCalled == ~muted /\ playing' = 0 /\ skipped' # skipped
C19_SkippedNotPlayed ==
    /\ [](\A t \in Tasks : skipped[t] => playing # t)
    /\ [][SkipCalled => state' = IDLE]_vars

\* C19, the part that holds: right after an unmuted skip_response the state is
\* IDLE and nothing is being played.
C19_SkipLeavesIdle == [][SkipCalled => state' = IDLE /\ playing' = 0]_vars

\* C20: the state follows IDLE -> LISTENING -> DETECTING -> THINKING ->
\* SPEAKING -> IDLE: THINKING is entered only from DETECTING, SPEAKING only
\* from THINKING, DETECTING only from IDLE or LISTENING, whatever keys are
\* pressed in between (steps into and out of MUTED set aside).
Enters(s) == state' = s /\ state # s
C20_StateCycle ==
    [][/\ Enters(THINKING) => state = DETECTING
       /\ Enters(SPEAKING) => state = THINKING
       /\ Enters(DETECTING) => state \in {IDLE, LISTENING}]_vars

\* Task t resumes from the classifier's call with a result on which the gate
\* does not decide RESPOND, or while the pipeline is muted.
Declined(t) ==
    /\ pc[t] = "classify"
    /\ \E nr \in BOOLEAN, c \in Confidences \cup {FailedConfidence}, fl \in BOOLEAN :
          /\ Decision(force[t], nr, c) # RESPOND \/ muted
          /\ Gate(t, nr, c, fl)
\* Nothing else happens in the step that ends task t: the flag is cleared, no
\* collaborator is called, the recognizer and the playback are left alone.
EndsWithoutAction(t) ==
    /\ pc'[t] = "done"
    /\ pending_check' = FALSE
    /\ \A u \in Tasks \ {t} : pc'[u] = pc[u]
    /\ UNCHANGED <<asrVars, playing>>

\* C21, as stated: a sequence whose gate decision is not RESPOND, or that finds
\* the pipeline muted at the decision, sets the state to IDLE and clears the
\* pending-check flag with no further action.
C21_DeclinedReturnsToIdle ==
    [][\A t \in Tasks : Declined(t) => state' = IDLE /\ EndsWithoutAction(t)]_vars

\* C21, amended: such a sequence ends with the pending-check flag cleared and
\* no further action (no generation, synthesis or playback, the recognizer
\* neither stopped nor restarted); the state becomes IDLE when the pipeline is
\* not muted and is left as it is when it is muted.
C21_DeclinedEndsWithoutAction ==
    [][\A t \in Tasks : Declined(t) =>
            /\ state' = IF muted THEN state ELSE IDLE
            /\ EndsWithoutAction(t)]_vars

\* A sequence has ended at the gate while muted: it found text, raised nothing
\* and the recognizer launched at start-up still runs.
C21_Witness ==
    /\ nCreated = 1 /\ pc[1] = "done" /\ ~raised[1] /\ ~textBlank
    /\ muted /\ state = MUTED /\ ~pending_check
    /\ process = InitialPid /\ InitialPid \in alive /\ asr_running

\* C22: every transcript arrival records the arrival time as the last-speech
\* timestamp, changes the state to LISTENING when and only when the state is
\* IDLE, and leaves every other state unchanged.
Arrival == \E p \in Pids : Transcript(p)
C22_ArrivalListensFromIdle ==
    [][Arrival => /\ last_speech_time' = now
                  /\ state = IDLE => state' = LISTENING
                  /\ state # IDLE => state' = state]_vars

\* C23: while the pipeline is muted no response path is taken: no step taken
\* with the mute flag set requests a response, stops the recognizer, requests
\* a synthesis or starts a playback, also when the sequence was in flight
\* before mute was entered.
RequestsResponse(t) == pc[t] # "generate" /\ pc'[t] = "generate"
StopsRecognizer(t) == pc[t] = "generate" /\ pc'[t] \in {"stop_closing", "settle"}
RequestsSynthesis(t) == pc[t] # "synth" /\ pc'[t] = "synth"
StartsPlayback(t) == pc[t] # "playing" /\ pc'[t] = "playing"
C23_MutedTakesNoResponsePath ==
    [][muted => \A t \in Tasks : /\ ~RequestsResponse(t)
                                  /\ ~StopsRecognizer(t)
                                  /\ ~RequestsSynthesis(t)
                                  /\ ~StartsPlayback(t)]_vars

\* ------------------------------- recognizer bridge: feeding and pausing
\* (asr/voxtral.py).  The main loop feeds the bridge, one awaited call after
\* another, while the detect/respond sequences stop and restart it.  drain()
\* is taken to return at once: the recognizer reads its input, or the pipe
\* and the transport buffer have room for the few seconds fed to a paused one.

\* The bytes of a block of n bytes given to feed_audio.
Bytes(n) == [i \in 1..n |-> nFed + i]

\* feed_audio turning away the audio fed to a paused process.
AcceptsUnlessPaused ==
    asr_running /\ process # NoProcess /\ ~warming_up /\ pausedAt[process] = NotPaused
\* feed_audio, lines 121-124: the audio is not turned away (the third test of
\* line 121, stdin.is_closing(), is made where the process has exited).
Accepts == asr_running /\ process # NoProcess /\ ~warming_up

\* The flush test with > for >=.
FlushDueStrict(buf) == Len(buf) > WriteThreshold
\* feed_audio, line 131.
FlushDue(buf) == Len(buf) >= WriteThreshold

\* A failed write that leaves the bytes in the buffer.
BrokenWriteKeeps(buf) ==
    /\ write_buffer' = buf
    /\ asr_running' = FALSE
\* _flush_buffer, lines 139-144, when the process has exited: write() hands
\* the bytes to the transport, the buffer is cleared, drain() raises
\* ConnectionResetError and the bridge is marked as not running.
BrokenWrite(buf) ==
    /\ write_buffer' = <<>>
    /\ asr_running' = FALSE

\* VoxtralASR.feed_audio with a block of n bytes.  Once the process has exited
\* its stdin transport is closing as soon as the event loop has noticed it,
\* and then line 121 returns; until then the bytes are buffered and a flush
\* fails.
FeedAudio(n) ==
    /\ nFed + n <= MaxBytes
    /\ nFed' = nFed + n
    /\ fedTo' = IF asr_running /\ ~warming_up /\ process \in alive
                   THEN [fedTo EXCEPT ![process] = @ \o Bytes(n)]
                   ELSE fedTo
    /\ IF ~Accepts
          THEN UNCHANGED <<asr_running, write_buffer, written>>
          ELSE LET buf == write_buffer \o Bytes(n) IN
               IF process \in alive
                  THEN /\ IF FlushDue(buf)
                             THEN /\ written' = [written EXCEPT ![process] = @ \o buf]
                                  /\ write_buffer' = <<>>
                             ELSE /\ write_buffer' = buf
                                  /\ UNCHANGED written
                       /\ UNCHANGED asr_running
                  ELSE \/ UNCHANGED <<asr_running, write_buffer, written>>
                       \/ /\ IF FlushDue(buf)
                                THEN BrokenWrite(buf)
                                ELSE /\ write_buffer' = buf
                                     /\ UNCHANGED asr_running
                          /\ UNCHANGED written
    /\ UNCHANGED <<process, model_ready, warming_up, alive, loaded, stdoutReaders, pausedAt>>
    /\ UNCHANGED notBridge

\* send_signal reaches the process: the handle is set, the bridge is running
\* and the process has not exited (else ProcessLookupError, which is caught).
Signalled == process # NoProcess /\ asr_running /\ process \in alive

\* VoxtralASR.pause.
Pause ==
    /\ pausedAt' = IF Signalled /\ pausedAt[process] = NotPaused
                      THEN [pausedAt EXCEPT ![process] = nFed]
                      ELSE pausedAt
    /\ UNCHANGED <<written, nFed, fedTo, asrVars, notBridge>>

\* VoxtralASR.resume.
Resume ==
    /\ pausedAt' = IF Signalled
                      THEN [pausedAt EXCEPT ![process] = NotPaused]
                      ELSE pausedAt
    /\ UNCHANGED <<written, nFed, fedTo, asrVars, notBridge>>

\* A process that is not stopped prints "Model loaded".
ModelLoadedRunning(p) ==
    /\ pausedAt[p] = NotPaused
    /\ ModelLoaded(p)

\* The first fragment of a session arrives.
FirstTranscript(p) ==
    /\ textBlank
    /\ Transcript(p)

\* The bridge as the pipeline uses it: fed by the main loop, stopped and
\* restarted by the sequences the force key starts once there is text.
BridgeNext ==
    \/ ForceRespond
    \/ \E n \in ChunkSizes : FeedAudio(n)
    \/ \E p \in Pids : FirstTranscript(p)
    \/ \E p \in Pids : ModelLoadedRunning(p)
    \/ \E p \in Pids : ProcessExits(p)
    \/ \E t \in Tasks : TaskStep(t)

BridgeSpecInit == Init /\ ~muted

BridgeSpec == BridgeSpecInit /\ [][BridgeNext]_vars

\* The bridge fed, paused and resumed while no sequence runs.
PauseNext ==
    \/ Pause
    \/ Resume
    \/ \E n \in ChunkSizes : FeedAudio(n)
    \/ \E p \in Pids : ProcessExits(p)

PauseSpec == BridgeSpecInit /\ [][PauseNext]_vars

\* A call of feed_audio.
FeedStep == nFed' # nFed
\* The bridge runs a process whose model-load signal has not been observed.
LoadingStarted == asr_running /\ process # NoProcess /\ process \notin loaded

\* C24: between start() and the observation of the model-load signal of the
\* process it started, every feed_audio call discards its audio: the write
\* buffer is and stays empty and nothing is written to a process.
C24_WarmUpDiscards ==
    [][FeedStep /\ LoadingStarted =>
           /\ write_buffer = <<>> /\ write_buffer' = <<>>
           /\ written' = written]_vars

\* The bridge is running and ready and its process has not exited.
Ready == asr_running /\ process # NoProcess /\ ~warming_up /\ process \in alive

\* C25: while the bridge is running and ready, fed audio is written only when
\* the write buffer has reached the threshold: after every feed_audio call the
\* buffer holds fewer than WriteThreshold bytes, every write hands over at
\* least WriteThreshold bytes, and the bytes written to the process followed
\* by the bytes still buffered are exactly the bytes fed, in feed order.
C25_WritesAtThreshold ==
    /\ [](Len(write_buffer) < WriteThreshold)
    /\ [](Ready => written[process] \o write_buffer = fedTo[process])
    /\ [][\A p \in Pids : written'[p] # written[p] =>
              /\ FeedStep /\ p = process
              /\ Len(written'[p]) >= Len(written[p]) + WriteThreshold]_vars

\* A second of audio has been written to the running process and a later
\* block waits in the buffer.
C25_Witness ==
    /\ Ready
    /\ Len(written[process]) >= WriteThreshold
    /\ write_buffer # <<>>

\* A feed_audio call whose flush writes to a process that has exited.
WriteToExited ==
    /\ FeedStep /\ Accepts /\ process \notin alive
    /\ FlushDue(write_buffer \o Bytes(nFed' - nFed))
    /\ write_buffer' # write_buffer
\* A start() call launches a process.
Launch == \E t \in Tasks : pc[t] = "starting" /\ pc'[t] = "wait_ready"

\* C26: a write that meets a broken pipe marks the bridge as not running and
\* is not retried (its bytes are dropped); while the bridge is not running
\* every feed_audio call changes nothing; and only a start() call launches a
\* process or marks the bridge as running again.
C26_BrokenPipeStops ==
    [][/\ WriteToExited => /\ ~asr_running' /\ write_buffer' = <<>>
                           /\ UNCHANGED <<written, process, alive>>
       /\ FeedStep /\ ~asr_running => UNCHANGED <<asrVars, written>>
       /\ (alive' \ alive # {} \/ (~asr_running /\ asr_running')) => Launch]_vars

\* The pipe broke while no sequence was running and audio was fed after it.
C26_Witness ==
    /\ ~asr_running /\ process = InitialPid /\ process \notin alive
    /\ \A t \in Tasks : pc[t] = "none"
    /\ write_buffer = <<>> /\ nFed > WriteThreshold

\* ------------------------- recognizer output: VoxtralASR._read_stdout
\* Decoded texts of the reads of the recognizer's output.
ReadTexts == {<<"a">>, <<" ">>, <<"\n">>, <<"a", " ">>}

\* VoxtralASR.on_transcript: a callback is registered.
OnTranscript(cb) ==
    /\ \A i \in 1..Len(on_transcript) : on_transcript[i] # cb
    /\ on_transcript' = Append(on_transcript, cb)
    /\ UNCHANGED <<fragmentsRead, calls, notReader>>

\* The calls made for fragment k when the first callback that raises ends
\* the delivery.
DeliverUntilRaise(k, raising) ==
    LET n == Len(on_transcript)
        stop == {i \in 1..n : on_transcript[i] \in raising}
        last == IF stop = {} THEN n ELSE CHOOSE i \in stop : \A j \in stop : i <= j
    IN  [i \in 1..last |-> <<k, on_transcript[i], on_transcript[i] \in raising>>]
\* Lines 90-94: every registered callback is called with fragment k, in
\* registration order; the callbacks in raising raise, which is caught.
Deliver(k, raising) ==
    [i \in 1..Len(on_transcript) |-> <<k, on_transcript[i], on_transcript[i] \in raising>>]

\* Line 88: text.strip() is not empty.
Delivers(text) == Strip(text) # <<>>

\* One iteration of the loop of _read_stdout: a read returns data, decoded
\* to text.
ReadStdout(text, raising) ==
    /\ Len(fragmentsRead) < MaxFragments
    /\ fragmentsRead' = Append(fragmentsRead, text)
    /\ calls' = IF Delivers(text)
                  THEN calls \o Deliver(Len(fragmentsRead) + 1, raising)
                  ELSE calls
    /\ UNCHANGED <<on_transcript, notReader>>

ReaderNext ==
    \/ \E cb \in Listeners : OnTranscript(cb)
    \/ \E text \in ReadTexts, raising \in SUBSET Listeners : ReadStdout(text, raising)

ReaderSpec == BridgeSpecInit /\ [][ReaderNext]_vars

\* A fragment is read.
ReadStep == Len(fragmentsRead') = Len(fragmentsRead) + 1
\* The step calls every registered callback once, in registration order, with
\* the fragment just read, after the calls already made.
CallsEveryListener ==
    /\ Len(calls') = Len(calls) + Len(on_transcript)
    /\ SubSeq(calls', 1, Len(calls)) = calls
    /\ \A i \in 1..Len(on_transcript) :
          /\ calls'[Len(calls) + i][1] = Len(fragmentsRead')
          /\ calls'[Len(calls) + i][2] = on_transcript[i]

\* C27, as stated: every fragment read from the recognizer's output is passed
\* to every registered listener, fragments in the order read and listeners in
\* registration order, whether or not a listener raises.
C27_EveryFragmentDelivered ==
    [][ReadStep => CallsEveryListener]_vars

\* C27, amended: every fragment that is not blank is so delivered; a blank
\* (whitespace-only) fragment is passed to no listener.
C27_NonBlankFragmentsDelivered ==
    [][ReadStep => IF Strip(fragmentsRead'[Len(fragmentsRead')]) # <<>>
                      THEN CallsEveryListener
                      ELSE calls' = calls]_vars

\* The first listener raised on a fragment, the second was still called with
\* it, a later fragment was delivered, and a blank fragment was read.
C27_Witness ==
    /\ Len(on_transcript) = 2
    /\ \E i \in 1..Len(calls) :
          /\ calls[i][2] = on_transcript[1] /\ calls[i][3]
          /\ i + 2 <= Len(calls)
          /\ calls[i + 1][1] = calls[i][1] /\ calls[i + 1][2] = on_transcript[2]
          /\ calls[i + 2][1] > calls[i][1]
    /\ \E k \in 1..Len(fragmentsRead) : Strip(fragmentsRead[k]) = <<>>

\* A pause() or resume() call that reaches the process.
PauseStep == pausedAt' # pausedAt

\* C28: pause() and resume() stop and continue the recognizer process without
\* ending it and change no field of the bridge (running flag, ready flag,
\* write buffer, process handle); they do nothing on a bridge that is not
\* running; and audio fed while the process is paused is accepted into the
\* write buffer like any other.
C28_PauseKeepsBridge ==
    [][/\ PauseStep => /\ asr_running /\ process # NoProcess
                       /\ UNCHANGED <<asrVars, written, nFed, fedTo>>
                       /\ \A p \in Pids \ {process} : pausedAt'[p] = pausedAt[p]
       /\ (FeedStep /\ Ready /\ pausedAt[process] # NotPaused) =>
              written'[process] \o write_buffer'
                  = (written[process] \o write_buffer) \o Bytes(nFed' - nFed)]_vars

\* The running process is paused and audio fed since then is in the buffer.
C28_Witness ==
    /\ Ready /\ pausedAt[process] # NotPaused
    /\ nFed > pausedAt[process]
    /\ write_buffer # <<>> /\ write_buffer[Len(write_buffer)] = nFed

\* Suspension points inside VoxtralASR.stop().
StopPcs == {"stop_closing", "stop_waiting"}

\* C29: stop() always completes, with the bridge not running and without a
\* process handle, also when the process has already exited: every stop() call
\* of a sequence returns normally (the sequence goes on to its settle delay)
\* and leaves the bridge stopped.
C29_StopAlwaysCompletes ==
    [][\A t \in Tasks : (pc[t] \in StopPcs /\ pc'[t] \notin StopPcs) =>
           /\ pc'[t] = "settle"
           /\ ~asr_running' /\ process' = NoProcess]_vars

\* C30: wait_ready() returns only after the model-load signal of the process
\* the bridge is running has been observed: while the bridge runs a process the
\* ready event is set only if that process's signal was observed, and a task
\* waiting in wait_ready() is woken only by such a signal, never by the signal
\* of an earlier process.
C30_ReadyIsOfCurrentProcess ==
    /\ []((asr_running /\ process # NoProcess /\ model_ready) => process \in loaded)
    /\ [][\A t \in Tasks : (pc[t] = "wait_ready" /\ pc'[t] = "woken") =>
              process' \in loaded']_vars

\* ------------------------------------------ audio capture: get_recent_audio

\* A Python slice seq[-n:] for n >= 0: the last n elements, but seq[-0:] is
\* seq[0:], the whole list.
LastBlocks(rb, n) ==
    IF n = 0 \/ n >= Len(rb) THEN rb
    ELSE SubSeq(rb, Len(rb) - n + 1, Len(rb))

\* AudioCapture.get_recent_audio, line 180: int() truncates the quotient.
BlocksNeeded(secs) == (secs * sample_rate) \div block_size

\* AudioCapture.get_recent_audio(secs): the chunks it concatenates, in order.
GetRecentAudio(secs) ==
    /\ seconds' = secs
    /\ recent_audio' = LastBlocks(ring_buffer, BlocksNeeded(secs))
    /\ UNCHANGED captureVars
    /\ UNCHANGED <<coreVars, vadVars, gateVars, bufferVars, resampleVars, llmVars,
                   feedVars, readerVars, textQueryVars, shutVars, notifyVars>>

RecentNext ==
    \/ Callback
    \/ \E secs \in AudioWindows : GetRecentAudio(secs)

RecentSpec == CaptureSpecInit /\ [][RecentNext]_vars

\* The fewest chunks whose duration covers secs seconds.
ChunksCovering(secs) == (secs * sample_rate + block_size - 1) \div block_size

IsSuffix(a, b) ==
    /\ Len(a) <= Len(b)
    /\ a = SubSeq(b, Len(b) - Len(a) + 1, Len(b))

Min(a, b) == IF a <= b THEN a ELSE b

\* C31: get_recent_audio(seconds) returns, in order, the most recent chunks
\* of the ring buffer covering at least the requested duration: trailing
\* chunks only, never fewer than the duration needs (or all of them when the
\* buffer holds fewer) and never more than it needs, for every seconds >= 0;
\* an empty buffer gives an empty result, and the call leaves the ring buffer
\* as it was.
C31_RecentCoversWindow ==
    [][\A secs \in AudioWindows : GetRecentAudio(secs) =>
          /\ IsSuffix(recent_audio', ring_buffer)
          /\ Len(recent_audio') = Min(ChunksCovering(secs), Len(ring_buffer))
          /\ ring_buffer = <<>> => recent_audio' = <<>>
          /\ ring_buffer' = ring_buffer]_vars

\* The same, for windows that are a whole number of chunks and at least one.
C31_WholeChunkWindows ==
    [][\A secs \in AudioWindows :
          (/\ GetRecentAudio(secs)
           /\ secs > 0
           /\ (secs * sample_rate) % block_size = 0) =>
          /\ IsSuffix(recent_audio', ring_buffer)
          /\ Len(recent_audio') = Min(ChunksCovering(secs), Len(ring_buffer))
          /\ ring_buffer' = ring_buffer]_vars

\* ---------------------------------- transcript buffer: get_recent_text

\* " ".join(parts).
RECURSIVE Join(_)
Join(parts) ==
    IF parts = <<>> THEN <<>>
    ELSE IF Len(parts) = 1 THEN parts[1]
    ELSE parts[1] \o <<" ">> \o Join(Tail(parts))

\* A get_recent that leaves out the segments stamped exactly at the cutoff.
RECURSIVE GetRecentAfter(_, _, _)
GetRecentAfter(segs, st, cutoff) ==
    IF segs = <<>> THEN <<>>
    ELSE (IF Head(st) > cutoff THEN <<Head(segs)>> ELSE <<>>)
         \o GetRecentAfter(Tail(segs), Tail(st), cutoff)

\* TranscriptBuffer.get_recent, line 69: the list comprehension over the
\* segments (texts segs, timestamps st).
RECURSIVE GetRecent(_, _, _)
GetRecent(segs, st, cutoff) ==
    IF segs = <<>> THEN <<>>
    ELSE (IF Head(st) >= cutoff THEN <<Head(segs)>> ELSE <<>>)
         \o GetRecent(Tail(segs), Tail(st), cutoff)

\* Lines 76-77 and 83-84: the pending text joins the parts if it is not blank.
WithPending(parts) ==
    IF Strip(current_text) # <<>> THEN Append(parts, Strip(current_text)) ELSE parts

\* The timestamps after a call that appended segments: the new ones are
\* stamped with the session clock.
Stamped ==
    stamps \o [i \in 1..(Len(segments') - Len(segments)) |-> elapsed]

\* add_text(text) at session time elapsed.
AddTextAt(text) ==
    /\ AddTextToBuffer(text)
    /\ stamps' = Stamped
    /\ UNCHANGED <<elapsed, window, recent_text, all_text, audioQueryVars>>
    /\ UNCHANGED <<coreVars, captureVars, vadVars, gateVars, resampleVars, llmVars,
                   feedVars, readerVars, shutVars, notifyVars>>

\* flush() at session time elapsed.
FlushAt ==
    /\ FlushBuffer
    /\ stamps' = Stamped
    /\ UNCHANGED <<elapsed, window, recent_text, all_text, audioQueryVars>>
    /\ UNCHANGED <<coreVars, captureVars, vadVars, gateVars, resampleVars, llmVars,
                   feedVars, readerVars, shutVars, notifyVars>>

\* time.monotonic() advances.
Elapse ==
    /\ elapsed < MaxElapsed
    /\ elapsed' = elapsed + 1
    /\ UNCHANGED <<stamps, window, recent_text, all_text, audioQueryVars>>
    /\ UNCHANGED notQuery

\* TranscriptBuffer.get_recent_text(w).
GetRecentText(w) ==
    /\ window' = w
    /\ recent_text' = Join(WithPending(GetRecent(segments, stamps, elapsed - w)))
    /\ UNCHANGED <<elapsed, stamps, all_text, audioQueryVars>>
    /\ UNCHANGED notQuery

\* TranscriptBuffer.get_all_text().
GetAllText ==
    /\ all_text' = Join(WithPending(segments))
    /\ UNCHANGED <<elapsed, stamps, window, recent_text, audioQueryVars>>
    /\ UNCHANGED notQuery

TextNext ==
    \/ \E text \in QueryFragments : AddTextAt(text)
    \/ FlushAt
    \/ Elapse
    \/ \E w \in TextWindows : GetRecentText(w)
    \/ GetAllText

TextSpec == BufferSpecInit /\ [][TextNext]_vars

\* The indices of the segments stamped at or after the cutoff, ascending.
RecentIndices(cutoff) ==
    LET idx == {i \in 1..Len(segments) : stamps[i] >= cutoff}
    IN  CHOOSE f \in [1..Cardinality(idx) -> idx] :
            \A i, j \in 1..Cardinality(idx) : i < j => f[i] < f[j]

\* The texts get_recent_text(w) is to return: those of the segments of the
\* window in order, then the pending text, trimmed, unless it is blank.
RecentParts(w) ==
    LET f == RecentIndices(elapsed - w)
        texts == [i \in 1..Len(f) |-> segments[f[i]]]
    IN  IF Strip(current_text) # <<>> THEN texts \o <<Strip(current_text)>> ELSE texts

\* C32: get_recent_text(seconds) returns, in order and joined by single
\* spaces, the texts of exactly the finalized segments whose timestamp is at
\* least (elapsed session time - seconds), followed by the trimmed pending
\* text if that is not blank; with a window covering the whole session it
\* equals what get_all_text() returns; and neither call changes the buffer.
C32_RecentTextIsWindowPlusPending ==
    /\ Len(stamps) = Len(segments)
    /\ [][/\ \A w \in TextWindows : GetRecentText(w) =>
                /\ recent_text' = Join(RecentParts(w))
                /\ (w >= elapsed =>
                      recent_text' = Join(IF Strip(current_text) # <<>>
                                            THEN Append(segments, Strip(current_text))
                                            ELSE segments))
                /\ UNCHANGED <<segments, current_text, stamps>>
          /\ GetAllText =>
                /\ all_text' = Join(IF Strip(current_text) # <<>>
                                       THEN Append(segments, Strip(current_text))
                                       ELSE segments)
                /\ UNCHANGED <<segments, current_text, stamps>>]_vars

\* A call whose window leaves out an older segment, keeps one stamped exactly
\* at the cutoff and appends the pending text.
C32_Witness ==
    /\ Len(segments) = 2
    /\ stamps = <<0, 1>>
    /\ elapsed = 2
    /\ window = 1
    /\ Strip(current_text) # <<>>
    /\ recent_text = segments[2] \o <<" ">> \o Strip(current_text)

\* ------------------------- utterance boundary detector: the silence timer

\* A process() call that classified exactly one frame, and that frame.
OneFrame == Len(vad_frames') = Len(vad_frames) + 1
NewFrame == vad_frames'[Len(vad_frames')]

\* The step appended a speech_end event.
EmitsSpeechEnd ==
    /\ Len(vad_events') = Len(vad_events) + 1
    /\ vad_events'[Len(vad_events')].type = "speech_end"
    /\ ~is_speaking'

\* When the silence timer of a below-threshold frame started: now if none
\* was pending, else when the pending one started.
TimerStart == IF silence_start = None THEN NewFrame.time ELSE silence_start

\* The first frame of the run of below-threshold frames that ends the
\* frames seen so far (0 if the last frame is at or above the threshold).
SilentRunStart ==
    LET n == Len(vad_frames)
        run == {i \in 1..n : \A j \in i..n : vad_frames[j].prob < SpeechThreshold}
    IN  IF run = {} THEN 0 ELSE CHOOSE i \in run : \A j \in run : i <= j

\* A pending timer belongs to the run of below-threshold frames that ends
\* the frames seen so far.
TimerPending ==
    silence_start # None =>
        /\ is_speaking
        /\ SilentRunStart # 0
        /\ \E i \in SilentRunStart..Len(vad_frames) :
              vad_frames[i].time = silence_start

\* What a frame does to the timer, for detectors whose silence_timeout is
\* one of timeouts.
TimerStep(timeouts) ==
    (OneFrame /\ silence_timeout \in timeouts) =>
        /\ (is_speaking /\ NewFrame.prob < SpeechThreshold) =>
              IF NewFrame.time - TimerStart >= silence_timeout
                 THEN EmitsSpeechEnd /\ silence_start' = None
                 ELSE /\ vad_events' = vad_events
                      /\ is_speaking'
                      /\ silence_start' = TimerStart
        /\ (is_speaking /\ NewFrame.prob >= SpeechThreshold) =>
              /\ silence_start' = None
              /\ vad_events' = vad_events
              /\ is_speaking'
        /\ EmitsSpeechEnd =>
              /\ is_speaking
              /\ NewFrame.prob < SpeechThreshold
              /\ NewFrame.time - TimerStart >= silence_timeout

\* C33: while speaking, a frame below the threshold starts or continues the
\* silence timer, and speech_end is emitted on a below-threshold frame as
\* soon as the time since the timer started is >= silence_timeout, also on
\* the frame that starts the timer when silence_timeout is 0; a frame at or
\* above the threshold while speaking cancels the pending timer, so a pending
\* timer always started within the run of below-threshold frames that ends
\* the frames seen, and speech_end is emitted only after such a silence.
C33_SilenceTimer ==
    []TimerPending /\ [][TimerStep(SilenceTimeouts)]_vars

\* The same for detectors with a positive silence_timeout.
C33_PositiveTimeouts ==
    []TimerPending /\ [][TimerStep(SilenceTimeouts \ {0})]_vars

\* ------------------------------ recognizer bridge: audio across a restart

\* Every element of the sequence a is an element of the sequence b.
Within(a, b) == \A i \in 1..Len(a) : \E j \in 1..Len(b) : b[j] = a[i]

\* C34: audio fed while the bridge is stopped or has not seen the ready
\* signal since its last start() is discarded and never redelivered: such a
\* feed_audio call buffers and writes nothing, start() leaves the write
\* buffer empty and the process it launched with nothing written, and every
\* byte ever written to a process was fed while the bridge was running that
\* process, so no byte fed before a restart reaches the restarted process.
C34_NoRedelivery ==
    /\ [](\A p \in Pids : Within(written[p], fedTo[p]))
    /\ [][/\ (FeedStep /\ (~asr_running \/ ~model_ready)) =>
                /\ write_buffer' = write_buffer
                /\ written' = written
          /\ Launch => /\ write_buffer' = <<>>
                        /\ written'[process'] = <<>>
                        /\ fedTo'[process'] = <<>>]_vars

\* Audio was fed while the recognizer was stopped for a response, and after
\* the restart later audio was written to the new process.
C34_Witness ==
    /\ process # NoProcess /\ process # InitialPid
    /\ written[process] # <<>>
    /\ written[process][1] > 1
    /\ \E b \in 1..(written[process][1] - 1) :
          \A p \in Pids : ~Within(<<b>>, written[p])

\* ----------------------------------------- shutdown: Orchestrator.stop()
\* main.run() calls Orchestrator.stop() in its finally clause, after the key
\* reader and the main loop have ended: no key is read and no check is
\* triggered once the call has begun, while the detect/respond sequences
\* already created run on as tasks of the event loop.

\* What the stop() call leaves alone apart from the recognizer bridge.
notShut == <<orchVars, envVars, taskVars, histVars, captureVars, vadVars, gateVars,
             bufferVars, resampleVars, llmVars, feedVars, readerVars, queryVars,
             notifyVars>>

\* Orchestrator.stop(), line 232, and VoxtralASR.stop() up to its first
\* suspension (lines 166-170).
OrchStop ==
    /\ stop_pc = "none"
    /\ orch_running' = FALSE
    /\ asr_running' = FALSE
    /\ stop_pc' = IF process = NoProcess THEN "asr_stopped" ELSE "stop_closing"
    /\ interrupted' = InFlight
    /\ UNCHANGED <<streamVars, stop_wait, process, model_ready, warming_up, alive, loaded,
                   stdoutReaders, write_buffer>>
    /\ UNCHANGED notShut

\* VoxtralASR.stop(), lines 171-175, in the stop() call: terminate() on the
\* handle as it is now.  Without a handle (AttributeError), or with a process
\* that exited and whose transport is closed (ProcessLookupError), the
\* exception leaves Orchestrator.stop().
OrchStopTerminate ==
    /\ stop_pc = "stop_closing"
    /\ IF process = NoProcess
          THEN /\ stop_pc' = "raised"
               /\ UNCHANGED <<stop_wait, process>>
          ELSE IF process \in alive
          THEN /\ stop_pc' = "stop_waiting"
               /\ stop_wait' = process
               /\ UNCHANGED process
          ELSE \/ /\ stop_pc' = "raised"
                  /\ UNCHANGED <<stop_wait, process>>
               \/ /\ stop_pc' = "asr_stopped"
                  /\ process' = NoProcess
                  /\ UNCHANGED stop_wait
    /\ UNCHANGED <<orch_running, interrupted, streamVars, asr_running, model_ready,
                   warming_up, alive, loaded, stdoutReaders, write_buffer>>
    /\ UNCHANGED notShut

\* VoxtralASR.stop(), lines 175-180, in the stop() call: the awaited process
\* exits within the grace period, or the wait times out and the handle as it
\* is now is killed and awaited; then the handle is dropped.
OrchStopWaited ==
    /\ stop_pc = "stop_waiting"
    /\ \/ /\ alive' = alive \ {stop_wait}
          /\ stdoutReaders' = stdoutReaders \ {stop_wait}
          /\ process' = NoProcess
          /\ stop_pc' = "asr_stopped"
       \/ /\ stop_wait \in alive
          /\ IF process = NoProcess
                THEN /\ stop_pc' = "raised"
                     /\ UNCHANGED <<alive, stdoutReaders, process>>
                ELSE /\ alive' = alive \ {process}
                     /\ stdoutReaders' = stdoutReaders \ {process}
                     /\ process' = NoProcess
                     /\ stop_pc' = "asr_stopped"
    /\ UNCHANGED <<orch_running, stop_wait, interrupted, streamVars, asr_running,
                   model_ready, warming_up, loaded, write_buffer>>
    /\ UNCHANGED notShut

\* Orchestrator.stop(), lines 234-237: capture and synthesizer are stopped
\* and the transcript flushed; the call returns.
OrchStopReturns ==
    /\ stop_pc = "asr_stopped"
    /\ stop_pc' = "done"
    /\ cap_running' = FALSE
    /\ cap_stream' = FALSE
    /\ nStops' = nStops + 1
    /\ UNCHANGED <<orch_running, stop_wait, interrupted, consumer, asrVars>>
    /\ UNCHANGED notShut

\* The keys, the clock and the main loop act until stop() is called.
BeforeStop(A) == stop_pc = "none" /\ A

ShutNext ==
    \/ BeforeStop(ToggleMute)
    \/ BeforeStop(Tick)
    \/ BeforeStop(RunTrigger)
    \/ \E p \in Pids : Transcript(p)
    \/ \E p \in Pids : ModelLoaded(p)
    \/ \E t \in Tasks : TaskStep(t)
    \/ OrchStop
    \/ OrchStopTerminate
    \/ OrchStopWaited
    \/ OrchStopReturns

\* The pipeline started without --listen-only.
ShutSpecInit == Init /\ ~muted

ShutSpec == ShutSpecInit /\ [][ShutNext]_vars

\* stop() has returned after interrupting a sequence, and every sequence
\* has ended.
ShutdownOver ==
    /\ stop_pc = "done"
    /\ interrupted # {}
    /\ \A t \in Tasks : pc[t] \in {"none", "done"}

\* C35: once an Orchestrator.stop() issued while a detect/respond sequence
\* was queued or under way has completed and every sequence has ended, the
\* state is IDLE or MUTED, the pending-check flag is false and the recognizer
\* is not running: the interrupted sequence does not start it again.
C35_ShutdownLeavesStopped ==
    ShutdownOver =>
        /\ state \in {IDLE, MUTED}
        /\ ~pending_check
        /\ ~asr_running

\* What does hold then: the flag is cleared and no sequence state is left.
C35_FlagClearedNoSequenceState ==
    ShutdownOver =>
        /\ state \in {IDLE, LISTENING, MUTED}
        /\ ~pending_check

\* ------------------------------------- state changes and their listeners

\* Everything but the state, the mute flag, the playback and the listeners.
notNotify == <<pending_check, last_speech_time, last_checked_speech_time, now, textBlank,
               asrVars, taskVars, histVars, captureVars, vadVars, gateVars, bufferVars,
               resampleVars, llmVars, feedVars, readerVars, queryVars, shutVars>>

\* Orchestrator.on_state_change: a callback is registered.
OnStateChange(cb) ==
    /\ \A i \in 1..Len(on_state_change) : on_state_change[i] # cb
    /\ on_state_change' = Append(on_state_change, cb)
    /\ state_calls' = <<>>
    /\ UNCHANGED <<state, muted, playing, notNotify>>

\* _set_state(new) with self.state = cur and self._muted = m, lines 114-123:
\* the calls it makes.  The callbacks in raising raise, which is caught.
Notify(cur, m, new, raising) ==
    IF (m /\ new # MUTED) \/ cur = new THEN <<>>
    ELSE [i \in 1..Len(on_state_change) |->
             <<on_state_change[i], new, on_state_change[i] \in raising>>]

\* A call of _set_state(new) from anywhere in the orchestrator.
SetStateCall(new, raising) ==
    /\ state' = SetState(state, muted, new)
    /\ state_calls' = Notify(state, muted, new, raising)
    /\ UNCHANGED <<muted, playing, on_state_change, notNotify>>

\* Orchestrator.toggle_mute, lines 127-135: entering mute goes through
\* _set_state(MUTED); leaving it assigns self.state = IDLE and then calls
\* _set_state(IDLE), which finds the state already IDLE.
ToggleMuteCall(raising) ==
    /\ muted' = ~muted
    /\ IF ~muted
          THEN /\ state' = SetState(state, TRUE, MUTED)
               /\ state_calls' = Notify(state, TRUE, MUTED, raising)
               /\ playing' = 0
          ELSE /\ state' = SetState(IDLE, FALSE, IDLE)
               /\ state_calls' = Notify(IDLE, FALSE, IDLE, raising)
               /\ UNCHANGED playing
    /\ UNCHANGED <<on_state_change, notNotify>>

NotifyNext ==
    \/ \E cb \in StateListeners : OnStateChange(cb)
    \/ \E new \in State \ {MUTED}, raising \in SUBSET StateListeners :
          SetStateCall(new, raising)
    \/ \E raising \in SUBSET StateListeners : ToggleMuteCall(raising)

\* The pipeline started without --listen-only.
NotifySpecInit == Init /\ ~muted

NotifySpec == NotifySpecInit /\ [][NotifyNext]_vars

\* The operation called every registered listener once, in registration
\* order, with the state the orchestrator is in after it.
ReportedToAll ==
    /\ Len(state_calls') = Len(on_state_change)
    /\ \A i \in 1..Len(on_state_change) :
          /\ state_calls'[i][1] = on_state_change[i]
          /\ state_calls'[i][2] = state'

\* C36: every change of the state value is reported to every registered
\* state-change listener, in registration order and with the new state, even
\* when an earlier listener raises, the change from MUTED to IDLE on leaving
\* mute included; an operation that leaves the state as it is calls no
\* listener.
C36_EveryChangeReported ==
    [][IF state' # state THEN ReportedToAll ELSE state_calls' = <<>>]_vars

\* The same for every operation but the one that leaves mute.
C36_ReportedExceptUnmute ==
    [][~(muted /\ ~muted') =>
          IF state' # state THEN ReportedToAll ELSE state_calls' = <<>>]_vars

\* ------------------------------- audio capture: stream() and stop()
\* The consumer of stream() is the loop of Orchestrator.run (lines 241-266).
\* consumer is "idle" before the first iteration, "waiting" inside
\* wait_for(queue.get(), 1.0), "yielded" while the loop body runs, "ended"
\* once the iteration is over and "raised" after stream() raised.

\* Everything but the capture and the shutdown variables.
notStream == <<coreVars, vadVars, gateVars, bufferVars, resampleVars, llmVars,
               feedVars, readerVars, queryVars, notifyVars>>

\* A stream() loop that never tests _running again.
LoopOnUnconditional == TRUE
\* stream(), line 171: the loop test.
LoopOn == cap_running

\* The first iteration of stream(): lines 169-171.
StreamOpen ==
    /\ consumer = "idle"
    /\ consumer' = IF ~cap_running THEN "raised" ELSE "waiting"
    /\ UNCHANGED <<orchStopVars, cap_running, cap_stream, nStops, captureVars, notStream>>

\* Lines 173-174: queue.get() returns the oldest chunk, which is yielded.
StreamYield ==
    /\ consumer = "waiting"
    /\ cap_queue # <<>>
    /\ lastReceived' = Head(cap_queue)
    /\ cap_queue' = Tail(cap_queue)
    /\ consumer' = "yielded"
    /\ UNCHANGED <<sample_rate, block_size, ring_buffer, scheduled, nProduced>>
    /\ UNCHANGED <<orchStopVars, cap_running, cap_stream, nStops, notStream>>

\* Lines 175-176 and 171: the read times out on an empty queue and the loop
\* test is made again.
StreamTimeout ==
    /\ consumer = "waiting"
    /\ cap_queue = <<>>
    /\ consumer' = IF LoopOn THEN "waiting" ELSE "ended"
    /\ UNCHANGED <<orchStopVars, cap_running, cap_stream, nStops, captureVars, notStream>>

\* Orchestrator.run, lines 242-243 and 241: the loop body breaks when the
\* orchestrator was stopped, else it asks for the next chunk and stream()
\* makes its loop test.
StreamResume ==
    /\ consumer = "yielded"
    /\ consumer' = IF ~orch_running THEN "ended"
                   ELSE IF LoopOn THEN "waiting" ELSE "ended"
    /\ UNCHANGED <<orchStopVars, cap_running, cap_stream, nStops, captureVars, notStream>>

\* AudioCapture.stop(), lines 158-165.
CaptureStop ==
    /\ nStops < MaxStops
    /\ nStops' = nStops + 1
    /\ cap_stream' = FALSE
    /\ cap_running' = FALSE
    /\ UNCHANGED <<orchStopVars, consumer, captureVars, notStream>>

\* Orchestrator.stop(), lines 232-234, when asr.stop() returns: the flag is
\* cleared and capture.stop() is called.
OrchestratorStops ==
    /\ orch_running
    /\ nStops < MaxStops
    /\ orch_running' = FALSE
    /\ stop_pc' = "done"
    /\ nStops' = nStops + 1
    /\ cap_stream' = FALSE
    /\ cap_running' = FALSE
    /\ UNCHANGED <<stop_wait, interrupted, consumer, captureVars, notStream>>

\* Orchestrator.stop(), lines 232-233, when asr.stop() raises: the flag is
\* cleared and the exception leaves stop() before capture.stop() is called.
OrchestratorStopRaises ==
    /\ orch_running
    /\ orch_running' = FALSE
    /\ stop_pc' = "raised"
    /\ UNCHANGED <<stop_wait, interrupted, streamVars, captureVars, notStream>>

\* The device delivers a block while it is open.
DeviceCallback ==
    /\ cap_stream
    /\ Callback

StreamNext ==
    \/ StreamOpen
    \/ StreamYield
    \/ StreamTimeout
    \/ StreamResume
    \/ CaptureStop
    \/ OrchestratorStops
    \/ OrchestratorStopRaises
    \/ DeviceCallback
    \/ RunQueuePut

\* A capture that was started, or one that never was.
StreamSpecInit ==
    /\ OrchInit /\ ~muted
    /\ CaptureInit(1, 100)
    /\ VadInit(1)
    /\ GateInit(AutoThreshold)
    /\ BufferInit
    /\ ResampleInit
    /\ LlmInit
    /\ FeedInit
    /\ ReaderInit
    /\ QueryInit
    /\ NotifyInit
    /\ orch_running = TRUE
    /\ stop_pc = "none"
    /\ stop_wait = NoProcess
    /\ interrupted = {}
    /\ cap_running \in BOOLEAN
    /\ cap_stream = cap_running
    /\ consumer = "idle"
    /\ nStops = 0

StreamSpec == StreamSpecInit /\ [][StreamNext]_vars

\* The event loop runs the consumer and the scheduled queue puts: a read
\* returns or times out, the loop body returns.
StreamFairSpec ==
    StreamSpec /\ WF_vars(StreamOpen \/ StreamYield \/ StreamTimeout \/ StreamResume)
               /\ WF_vars(RunQueuePut)

\* The consumer is not inside stream().
Terminated == consumer \in {"ended", "raised"}

\* C37: once AudioCapture.stop() has been called (by itself or by
\* Orchestrator.stop()), a consumer iterating stream() leaves the iteration: a
\* consumer waiting for a chunk on an empty queue ends at the read timeout,
\* one that gets a chunk ends at its next loop test, and the loop of run()
\* ends with the first chunk it gets after Orchestrator.stop() cleared its
\* flag; a consumer that has ended stays ended; a second stop() changes
\* nothing but the count of calls; and the first iteration of stream() on a
\* capture that is not running raises.
C37_StreamEndsAfterStop ==
    /\ (~cap_running /\ consumer # "idle") ~> Terminated
    /\ [][/\ Terminated => consumer' = consumer
          /\ (nStops' = nStops + 1 /\ ~cap_running /\ ~cap_stream) =>
                /\ ~cap_running' /\ ~cap_stream'
                /\ UNCHANGED <<consumer, captureVars>>
          /\ (consumer = "idle" /\ consumer' # "idle") =>
                (consumer' = "raised" <=> ~cap_running)
          /\ (consumer = "waiting" /\ cap_queue = <<>> /\ ~cap_running
                 /\ consumer' # consumer) => consumer' = "ended"
          /\ (consumer = "yielded" /\ ~orch_running /\ consumer' # consumer) =>
                consumer' = "ended"]_vars

\* The consumer was waiting on an empty queue when stop() was called twice,
\* and has ended.
C37_Witness ==
    /\ consumer = "ended"
    /\ nStops = 2
    /\ lastReceived > 0
    /\ cap_queue = <<>>

\* ------------------------------------------- the two speech timestamps

\* The suspension points inside the inner try of _check_and_respond (lines
\* 343-386): the recognizer's stop, synthesis, playback and the restart.
ResponsePcs == {"stop_closing", "stop_waiting", "settle", "synth", "play_queued",
                "playing", "starting", "wait_ready", "woken"}

\* A cycle that entered the synthesis block finishes.
ResponseCycleEnds == \E t \in Tasks : pc[t] \in ResponsePcs /\ pc'[t] = "done"

\* C38: the last-checked speech timestamp never exceeds the last-speech
\* timestamp, neither ever decreases, and the last-checked timestamp changes
\* only in a step where the main loop starts a check or a cycle that reached
\* the synthesis block finishes, each time to the last-speech timestamp.
C38_CheckedFollowsSpeech ==
    /\ [](last_checked_speech_time <= last_speech_time)
    /\ [][/\ last_speech_time' >= last_speech_time
          /\ last_checked_speech_time' >= last_checked_speech_time
          /\ last_checked_speech_time' # last_checked_speech_time =>
                /\ last_checked_speech_time' = last_speech_time
                /\ last_speech_time' = last_speech_time
                /\ RunTrigger \/ ResponseCycleEnds]_vars

\* Speech arrived after the main loop's last check and a finished cycle has
\* marked it as checked.
C38_Witness ==
    /\ arrivedSinceCheck
    /\ last_speech_time > 0
    /\ last_checked_speech_time = last_speech_time
    /\ \E t \in Tasks : pc[t] = "done"

\* --------------------------------------------- recognizer processes alive

\* C39: at most one recognizer process launched by the bridge is alive at
\* any time; a process is launched only while the bridge is not running; and
\* the process handle is never replaced or dropped while the process it
\* refers to is still alive, under any interleaving of start() and stop()
\* calls, two sequences restarting the recognizer at once and a start() after
\* a broken pipe included.
C39_OneProcessAlive ==
    /\ [](Cardinality(alive) <= 1)
    /\ [][/\ alive' \ alive # {} => ~asr_running
          /\ (process # NoProcess /\ process' # process) => process \notin alive']_vars

\* --------------------------------------------- mute flag and MUTED state

\* C40: in every reachable state the mute flag is set if and only if the
\* state is MUTED, a start in listen-only mode included.
C40_MutedIffFlag == muted <=> state = MUTED

\* The same for the mute entered by toggle_mute.
C40_AgreeWhenToggled ==
    /\ muteToggled => (muted /\ state = MUTED)
    /\ state = MUTED => muted

====
